---- MODULE Spec2Model ----
(***************************************************************************)
(* pmcs-terminal: the encryption and key-management engine.                *)
(*                                                                         *)
(* KeyManager (key hierarchy, rotation), CryptoService (file envelopes,    *)
(* decryption sessions, access decisions), the AuthenticationService       *)
(* session they consult, the EncryptedFileRepository built on them and the *)
(* GitService transaction it reports to, as one state machine.             *)
(*                                                                         *)
(* Cryptography is symbolic.  A key is the term it was derived from, a     *)
(* ciphertext is the pair (key, plaintext), an authentication tag is the   *)
(* triple (key, associated data, plaintext); a changed byte string is the  *)
(* same term with its x flag set.  crypto.randomBytes returns a value it   *)
(* never returned before: the n-th master key, salt or iv is the number n  *)
(* (a session key, which nothing reads, is any value of SessionKeys).      *)
(* Time is counted in hours.                                               *)
(***************************************************************************)
EXTENDS Integers, Sequences, FiniteSets, TLC

VARIABLES
  now,                  \* wall clock (Date.now()), in hours
  rndMaster,            \* master keys drawn by crypto.randomBytes so far
  rndFile,              \* (iv, salt) pairs drawn so far
  session,              \* AuthenticationService.currentSession
  encDir,               \* the directory .pmcs/encryption exists
  masterFile,           \* .pmcs/encryption/master.key (0: no such file)
  fs,                   \* the working files: path -> content
  accessLog,            \* .pmcs/encryption/access.log: the number of entries
  activeSessions,       \* CryptoService.activeSessions
  sessionKeyFile,       \* .pmcs/encryption/session.key
  keyHierarchy,         \* KeyManager.keyHierarchy
  keyHierarchyFile,     \* .pmcs/encryption/key-hierarchy.json
  keyRotationSchedules, \* KeyManager.keyRotationSchedules
  rotationScheduleFile, \* .pmcs/encryption/rotation-schedule.json
  rotationLog,          \* .pmcs/encryption/key-rotation.log: the number of entries
  result,               \* outcome of the last call (observation only)
  encryptedUnder,       \* path -> master.key when the envelope there was written
                        \* (observation only)
  transactionActive,    \* GitService.transactionActive
  transactionFiles,     \* GitService.transactionFiles
  usersFile,            \* .pmcs/users.json: the users array
  lastCheck             \* when checkAndPerformScheduledRotations() last returned

vars == <<now, rndMaster, rndFile, session, encDir, masterFile, fs, accessLog, activeSessions,
          sessionKeyFile, keyHierarchy, keyHierarchyFile, keyRotationSchedules,
          rotationScheduleFile, rotationLog, result, encryptedUnder,
          transactionActive, transactionFiles, usersFile, lastCheck>>

authVars == <<usersFile>>
schedVars == <<lastCheck>>
cryptoVars == <<fs, accessLog, activeSessions, sessionKeyFile>>
kmVars == <<keyHierarchy, keyHierarchyFile, keyRotationSchedules,
            rotationScheduleFile, rotationLog>>
\* what no call but encryptFile changes
obsVars == <<encryptedUnder>>
gitVars == <<transactionActive, transactionFiles>>

----------------------------------------------------------------------------
(* Bounds of the model *)

MaxTime == 5    \* the clock stops advancing here
MaxMaster == 2  \* master keys generated in one behaviour
MaxFile == 2    \* files encrypted in one behaviour
MaxLog == 2     \* entries of access.log / key-rotation.log
MaxPatch == 3   \* patch number of a stored entity's version
MaxClock == 1800 \* the clock of the scheduled rotations, in hours
MaxFindLog == 4  \* entries of access.log once findAll has run

----------------------------------------------------------------------------
(* Program constants *)

SESSION_DURATION == 4             \* 4 * 60 * 60 * 1000 ms
KEY_ROTATION_INTERVAL == 720      \* 30 * 24 * 60 * 60 * 1000 ms

\* a pass of the scheduled rotations is run once per rotation interval
CheckPeriod == KEY_ROTATION_INTERVAL

SYSTEM_OWNER == "system.owner"
SYSTEM_ADMIN == "system.admin"
SYSTEM_MEMBER == "system.member"
SystemRole == {SYSTEM_OWNER, SYSTEM_ADMIN, SYSTEM_MEMBER}

UNCLASSIFIED == "UNCLASSIFIED"
Classification == {"TOP_SECRET", "SECRET", "CONFIDENTIAL", UNCLASSIFIED}

CorporateLevel == {"CEO", "COO", "CTO", "CFO", "EVP", "SVP", "VP", "DIRECTOR",
                   "MANAGER", "SENIOR_MEMBER", "MEMBER", "OBSERVER"}

corporateHierarchy == <<"OBSERVER", "MEMBER", "SENIOR_MEMBER", "MANAGER",
                        "DIRECTOR", "VP", "SVP", "EVP", "CFO", "CTO", "COO",
                        "CEO">>

\* Array.prototype.indexOf: 0-based position, -1 when absent
indexOf(arr, x) ==
  IF \E i \in 1..Len(arr) : arr[i] = x
  THEN (CHOOSE i \in 1..Len(arr) : arr[i] = x /\ \A j \in 1..(i-1) : arr[j] # x) - 1
  ELSE -1

----------------------------------------------------------------------------
(* Inputs *)

NoOrg == ""      \* organizationId undefined
NoPath == <<>>   \* outputPath undefined
NoUser == ""

Users == {"alice", "bob"}
Orgs == {"org-1"}

\* users.json and memberships.json as authenticate() reads them
UserDirectory ==
  [u \in Users |->
     CASE u = "alice" -> [systemRole |-> SYSTEM_MEMBER,
                          memberships |-> <<[organizationId |-> "org-1",
                                             corporateLevel |-> "MANAGER",
                                             status |-> "ACTIVE"]>>]
       [] u = "bob"   -> [systemRole |-> SYSTEM_MEMBER,
                          memberships |-> <<[organizationId |-> "org-1",
                                             corporateLevel |-> "MEMBER",
                                             status |-> "ACTIVE"]>>]
       [] OTHER       -> [systemRole |-> SYSTEM_MEMBER, memberships |-> <<>>]]

\* file names are sequences of tokens; ".encrypted" is one token
ENC == ".encrypted"
FileNames == {<<"a", ".json">>}
OutputPaths == {NoPath}
Contents == {"f1"}

\* the (organization, classification, corporate level) arguments tried
Contexts == {<<"org-1", UNCLASSIFIED, "MEMBER">>,
             <<"org-1", "SECRET", "MANAGER">>}

\* the values crypto.randomBytes may return for a session key
SessionKeys == {1}

TickSteps == {SESSION_DURATION}

----------------------------------------------------------------------------
(* Values *)

\* a Map with no entries
EmptyMap == [k \in {} |-> 0]

\* Map.prototype.set / delete
put(map, k, v) == [x \in DOMAIN map \cup {k} |-> IF x = k THEN v ELSE map[x]]
delete(map, k) == [x \in DOMAIN map \ {k} |-> map[x]]

NoSession == [id |-> NoUser, systemRole |-> "", organizationMemberships |-> <<>>]

Plain(b) == [kind |-> "plain", bytes |-> b]
IsEnvelope(c) == c.kind = "envelope"

\* String.prototype.replace(tok, ''): the first occurrence is removed
replace(s, tok) ==
  IF \E i \in 1..Len(s) : s[i] = tok
  THEN LET i == CHOOSE k \in 1..Len(s) : s[k] = tok /\ \A j \in 1..(k-1) : s[j] # tok
       IN  SubSeq(s, 1, i-1) \o SubSeq(s, i+1, Len(s))
  ELSE s

\* Array.prototype.find on the membership list: index of the first match, 0 if none
\* (matches[i]: the callback's value on the i-th element)
findIndex(matches) ==
  IF \E i \in 1..Len(matches) : matches[i]
  THEN CHOOSE i \in 1..Len(matches) : matches[i] /\ \A j \in 1..(i-1) : ~matches[j]
  ELSE 0

\* Array.prototype.filter (keep[i]: the callback's value on the i-th element)
RECURSIVE filter(_, _)
filter(arr, keep) ==
  IF Len(arr) = 0 THEN <<>>
  ELSE (IF keep[1] THEN <<arr[1]>> ELSE <<>>)
       \o filter(SubSeq(arr, 2, Len(arr)), SubSeq(keep, 2, Len(keep)))

\* the call's outcome: the method, how it ended ("ok" or the error thrown), its
\* argument and, for a KeyManager method, the key hierarchy it started from
ResKM(op, status, path, before) ==
  [op |-> op, status |-> status, path |-> path, before |-> before]
Res(op, status, path) == ResKM(op, status, path, <<>>)
\* no call of the services was the last step
Idle == Res("", "", NoPath)

----------------------------------------------------------------------------
(* AuthenticationService *)

\* authenticate(): the session holds the user's ACTIVE memberships
authenticate(u) ==
  [id |-> u,
   systemRole |-> UserDirectory[u].systemRole,
   organizationMemberships |->
     filter(UserDirectory[u].memberships,
            [i \in 1..Len(UserDirectory[u].memberships) |->
               UserDirectory[u].memberships[i].status = "ACTIVE"])]

\* getCurrentSession() throws when there is no valid session
HasSession == session # NoSession

Login(u) ==
  /\ session' = authenticate(u)
  /\ result' = Idle
  /\ UNCHANGED <<schedVars, authVars, gitVars, now, rndMaster, rndFile, encDir, masterFile, cryptoVars, kmVars, obsVars>>

Logout ==
  /\ session' = NoSession
  /\ result' = Idle
  /\ UNCHANGED <<schedVars, authVars, gitVars, now, rndMaster, rndFile, encDir, masterFile, cryptoVars, kmVars, obsVars>>

----------------------------------------------------------------------------
(* CryptoService: keys and the cipher *)

\* `${userId}:${organizationId || 'global'}:${classification}:${corporateLevel}`
sessionKeyId(userId, organizationId, classification, corporateLevel) ==
  <<userId, IF organizationId # NoOrg THEN organizationId ELSE "global",
    classification, corporateLevel>>

\* pbkdf2Sync(concat(masterKey, userId, organizationId || '', classification,
\* corporateLevel), salt, ...)
pbkdf2FileKey(masterKey, userId, organizationId, classification, corporateLevel, salt) ==
  [master |-> masterKey,
   material |-> <<userId>> \o (IF organizationId # NoOrg THEN <<organizationId>> ELSE <<>>)
                 \o <<classification, corporateLevel>>,
   salt |-> salt]

\* deriveFileKey, once master.key was read: the key and the session cache after
\* the call.  A cached key is returned whatever the salt.
deriveFileKey(sessions, masterKey, userId, organizationId, classification, corporateLevel, salt) ==
  LET keyId == sessionKeyId(userId, organizationId, classification, corporateLevel)
      hasSession == userId \in DOMAIN sessions
  IN  IF hasSession /\ keyId \in DOMAIN sessions[userId].derivedKeys
      THEN [key |-> sessions[userId].derivedKeys[keyId], sessions |-> sessions]
      ELSE LET derivedKey == pbkdf2FileKey(masterKey, userId, organizationId,
                                           classification, corporateLevel, salt)
           IN  [key |-> derivedKey,
                sessions |->
                  IF hasSession
                  THEN [sessions EXCEPT ![userId].derivedKeys =
                          [k \in DOMAIN @ \cup {keyId} |->
                             IF k = keyId THEN derivedKey ELSE @[k]]]
                  ELSE sessions]

\* the associated data bound by setAAD
AAD(userId, organizationId, classification, corporateLevel, fileName) ==
  [userId |-> userId, organizationId |-> organizationId,
   classification |-> classification, corporateLevel |-> corporateLevel,
   fileName |-> fileName]

\* createCipher(ALGORITHM, derivedKey): key and nonce both come from derivedKey
\* (the iv of the metadata is not an input); update/final and getAuthTag
cipherData(key, plaintext) == [key |-> key, pt |-> plaintext, x |-> 0]
cipherAuthTag(key, aad, plaintext) == [key |-> key, aad |-> aad, pt |-> plaintext, x |-> 0]

\* createDecipher(ALGORITHM, derivedKey) ... final(): the tag verifies
decipherFinalOk(key, aad, data, authTag) ==
  /\ data.x = 0
  /\ authTag.x = 0
  /\ data.key = key
  /\ authTag.key = key
  /\ authTag.aad = aad
  /\ authTag.pt = data.pt

----------------------------------------------------------------------------
(* Access decisions *)

\* canDecryptFile without the classification clearance step
canDecryptFile_NoClearance(metadata, userId, s) ==
  IF s.systemRole = SYSTEM_OWNER THEN TRUE
  ELSE IF metadata.encryptedBy = userId THEN TRUE
  ELSE IF metadata.organizationId # NoOrg
  THEN LET i == findIndex([j \in 1..Len(s.organizationMemberships) |->
                            s.organizationMemberships[j].organizationId
                              = metadata.organizationId])
       IN  IF i = 0 \/ s.organizationMemberships[i].status # "ACTIVE" THEN FALSE
           ELSE indexOf(corporateHierarchy, s.organizationMemberships[i].corporateLevel)
                  >= indexOf(corporateHierarchy, metadata.corporateLevel)
  ELSE FALSE

\* CryptoService.canDecryptFile(metadata, userId) under the session s
canDecryptFile(metadata, userId, s) ==
  IF s.systemRole = SYSTEM_OWNER THEN TRUE
  ELSE IF metadata.encryptedBy = userId THEN TRUE
  ELSE IF metadata.organizationId # NoOrg
  THEN LET i == findIndex([j \in 1..Len(s.organizationMemberships) |->
                            s.organizationMemberships[j].organizationId
                              = metadata.organizationId])
       IN  IF i = 0 \/ s.organizationMemberships[i].status # "ACTIVE" THEN FALSE
           ELSE IF ~(s.systemRole = SYSTEM_OWNER
                     \/ metadata.classification = UNCLASSIFIED) THEN FALSE
           ELSE indexOf(corporateHierarchy, s.organizationMemberships[i].corporateLevel)
                  >= indexOf(corporateHierarchy, metadata.corporateLevel)
  ELSE FALSE

\* validateUserKeyAccess without the comparison of the session user with userId
validateUserKeyAccess_AnyUser(userId, organizationId, classification, corporateLevel, s) ==
  IF s = NoSession THEN FALSE
  ELSE IF organizationId # NoOrg
  THEN LET i == findIndex([j \in 1..Len(s.organizationMemberships) |->
                            /\ s.organizationMemberships[j].organizationId
                                 = organizationId
                            /\ s.organizationMemberships[j].status = "ACTIVE"])
       IN  IF i = 0 THEN FALSE
           ELSE IF ~(s.systemRole = SYSTEM_OWNER \/ classification = UNCLASSIFIED)
           THEN FALSE
           ELSE IF indexOf(corporateHierarchy, s.organizationMemberships[i].corporateLevel)
                     < indexOf(corporateHierarchy, corporateLevel)
           THEN FALSE
           ELSE TRUE
  ELSE TRUE

\* validateUserKeyAccess granting only at exactly the required level
validateUserKeyAccess_ExactLevel(userId, organizationId, classification, corporateLevel, s) ==
  IF s = NoSession THEN FALSE
  ELSE IF s.id # userId /\ s.systemRole # "system.owner" THEN FALSE
  ELSE IF organizationId # NoOrg
  THEN LET i == findIndex([j \in 1..Len(s.organizationMemberships) |->
                            /\ s.organizationMemberships[j].organizationId
                                 = organizationId
                            /\ s.organizationMemberships[j].status = "ACTIVE"])
       IN  IF i = 0 THEN FALSE
           ELSE IF ~(s.systemRole = SYSTEM_OWNER \/ classification = UNCLASSIFIED)
           THEN FALSE
           ELSE IF indexOf(corporateHierarchy, s.organizationMemberships[i].corporateLevel)
                     # indexOf(corporateHierarchy, corporateLevel)
           THEN FALSE
           ELSE TRUE
  ELSE TRUE

\* KeyManager.validateUserKeyAccess(userId, organizationId, classification,
\* corporateLevel) under the session s (NoSession: getCurrentSession throws)
validateUserKeyAccess(userId, organizationId, classification, corporateLevel, s) ==
  IF s = NoSession THEN FALSE
  ELSE IF s.id # userId /\ s.systemRole # "system.owner" THEN FALSE
  ELSE IF organizationId # NoOrg
  THEN LET i == findIndex([j \in 1..Len(s.organizationMemberships) |->
                            /\ s.organizationMemberships[j].organizationId
                                 = organizationId
                            /\ s.organizationMemberships[j].status = "ACTIVE"])
       IN  IF i = 0 THEN FALSE
           ELSE IF ~(s.systemRole = SYSTEM_OWNER \/ classification = UNCLASSIFIED)
           THEN FALSE
           ELSE IF indexOf(corporateHierarchy, s.organizationMemberships[i].corporateLevel)
                     < indexOf(corporateHierarchy, corporateLevel)
           THEN FALSE
           ELSE TRUE
  ELSE TRUE

----------------------------------------------------------------------------
(* CryptoService *)

\* fs.writeFile / fs.remove on the working files
writeFile(files, p, c) == [q \in DOMAIN files \cup {p} |-> IF q = p THEN c ELSE files[q]]
remove(files, p) == [q \in DOMAIN files \ {p} |-> files[q]]

\* CryptoService.initialize / KeyManager.generateMasterKey draw the key at random
CryptoInitialize ==
  /\ rndMaster < MaxMaster
  /\ encDir' = TRUE
  /\ IF masterFile = 0
     THEN masterFile' = rndMaster + 1 /\ rndMaster' = rndMaster + 1
     ELSE UNCHANGED <<masterFile, rndMaster>>
  /\ result' = Idle
  /\ UNCHANGED <<schedVars, authVars, gitVars, now, rndFile, session, cryptoVars, kmVars, obsVars>>

\* the JSON encryptFile writes: metadata and ciphertext of fileBuffer under key
encryptedFile(key, userId, organizationId, classification, corporateLevel, fileName, fileBuffer, iv, salt) ==
  LET aad == AAD(userId, organizationId, classification, corporateLevel, fileName)
  IN  [kind |-> "envelope",
       metadata |-> [encryptedBy |-> userId,
                     organizationId |-> organizationId,
                     classification |-> classification,
                     corporateLevel |-> corporateLevel,
                     iv |-> [v |-> iv, x |-> 0],
                     authTag |-> cipherAuthTag(key, aad, fileBuffer),
                     salt |-> salt],
       data |-> cipherData(key, fileBuffer)]

encryptFile(filePath, organizationId, classification, corporateLevel) ==
  /\ rndFile < MaxFile
  /\ IF ~HasSession
     THEN /\ result' = Res("encryptFile", "NoSession", filePath)
          /\ UNCHANGED <<rndFile, cryptoVars, obsVars>>
     ELSE IF filePath \notin DOMAIN fs
     THEN /\ result' = Res("encryptFile", "FileNotFound", filePath)
          /\ UNCHANGED <<rndFile, cryptoVars, obsVars>>
     ELSE IF masterFile = 0
     THEN /\ result' = Res("encryptFile", "KeyMaterialMissing", filePath)
          /\ UNCHANGED <<rndFile, cryptoVars, obsVars>>
     ELSE LET fileBuffer == fs[filePath]
              fileName == filePath
              iv == rndFile + 1
              salt == rndFile + 1
              d == deriveFileKey(activeSessions, masterFile, session.id, organizationId,
                                 classification, corporateLevel, salt)
              encryptedPath == filePath \o <<ENC>>
          IN  /\ rndFile' = rndFile + 1
              /\ activeSessions' = d.sessions
              /\ fs' = remove(writeFile(fs, encryptedPath,
                                encryptedFile(d.key, session.id, organizationId,
                                              classification, corporateLevel,
                                              fileName, fileBuffer, iv, salt)),
                              filePath)
              /\ encryptedUnder' = put(encryptedUnder, encryptedPath, masterFile)
              /\ result' = Res("encryptFile", "ok", encryptedPath)
              /\ UNCHANGED <<accessLog, sessionKeyFile>>
  /\ UNCHANGED <<schedVars, authVars, gitVars, now, rndMaster, session, encDir, masterFile, kmVars>>

\* logDecryptOperation appends one entry (entries are never read back)
logDecryptOperation(log) == log + 1

\* where decryptFile writes the plaintext
finalPath(encryptedPath, outputPath) ==
  IF outputPath # NoPath THEN outputPath ELSE replace(encryptedPath, ENC)

\* decryptFile from the key derivation on: derive, decipher, write, log
decryptFileBody(encryptedPath, outputPath) ==
  LET metadata == fs[encryptedPath].metadata
      encryptedData == fs[encryptedPath].data
  IN  IF masterFile = 0
      THEN /\ result' = Res("decryptFile", "KeyMaterialMissing", encryptedPath)
           /\ UNCHANGED cryptoVars
      ELSE LET d == deriveFileKey(activeSessions, masterFile, metadata.encryptedBy,
                                  metadata.organizationId, metadata.classification,
                                  metadata.corporateLevel, metadata.salt)
               aad == AAD(metadata.encryptedBy, metadata.organizationId,
                          metadata.classification, metadata.corporateLevel,
                          replace(encryptedPath, ENC))
               out == finalPath(encryptedPath, outputPath)
           IN  /\ activeSessions' = d.sessions
               /\ IF decipherFinalOk(d.key, aad, encryptedData, metadata.authTag)
                  THEN /\ fs' = writeFile(fs, out, encryptedData.pt)
                       /\ accessLog' = logDecryptOperation(accessLog)
                       /\ result' = Res("decryptFile", "ok", encryptedPath)
                  ELSE /\ result' = Res("decryptFile", "DecryptionFailed", encryptedPath)
                       /\ UNCHANGED <<fs, accessLog>>
               /\ UNCHANGED sessionKeyFile

\* decryptFile with the permission check after the key derivation
decryptFile_CheckLast(encryptedPath, outputPath) ==
  /\ accessLog < MaxLog
  /\ IF ~HasSession
     THEN /\ result' = Res("decryptFile", "NoSession", encryptedPath)
          /\ UNCHANGED cryptoVars
     ELSE IF encryptedPath \notin DOMAIN fs
     THEN /\ result' = Res("decryptFile", "FileNotFound", encryptedPath)
          /\ UNCHANGED cryptoVars
     ELSE IF ~IsEnvelope(fs[encryptedPath])
     THEN /\ result' = Res("decryptFile", "Malformed", encryptedPath)
          /\ UNCHANGED cryptoVars
     ELSE IF canDecryptFile(fs[encryptedPath].metadata, session.id, session)
             \/ masterFile = 0
     THEN decryptFileBody(encryptedPath, outputPath)
     ELSE LET metadata == fs[encryptedPath].metadata
          IN  /\ activeSessions' =
                   deriveFileKey(activeSessions, masterFile, metadata.encryptedBy,
                                 metadata.organizationId, metadata.classification,
                                 metadata.corporateLevel, metadata.salt).sessions
              /\ result' = Res("decryptFile", "AccessDenied", encryptedPath)
              /\ UNCHANGED <<fs, accessLog, sessionKeyFile>>
  /\ UNCHANGED <<schedVars, authVars, gitVars, now, rndMaster, rndFile, session, encDir, masterFile, kmVars, obsVars>>

decryptFile(encryptedPath, outputPath) ==
  /\ accessLog < MaxLog
  /\ IF ~HasSession
     THEN /\ result' = Res("decryptFile", "NoSession", encryptedPath)
          /\ UNCHANGED cryptoVars
     ELSE IF encryptedPath \notin DOMAIN fs
     THEN /\ result' = Res("decryptFile", "FileNotFound", encryptedPath)
          /\ UNCHANGED cryptoVars
     ELSE IF ~IsEnvelope(fs[encryptedPath])
     THEN /\ result' = Res("decryptFile", "Malformed", encryptedPath)
          /\ UNCHANGED cryptoVars
     ELSE IF ~canDecryptFile(fs[encryptedPath].metadata, session.id, session)
     THEN /\ result' = Res("decryptFile", "AccessDenied", encryptedPath)
          /\ UNCHANGED cryptoVars
     ELSE decryptFileBody(encryptedPath, outputPath)
  /\ UNCHANGED <<schedVars, authVars, gitVars, now, rndMaster, rndFile, session, encDir, masterFile, kmVars, obsVars>>

NoFile == [userId |-> NoUser, sessionKey |-> 0, expiresAt |-> 0]

\* startDecryptionSession replacing a session that is still valid
startDecryptionSession_Restarts(userId) ==
  /\ IF userId \in DOMAIN activeSessions /\ activeSessions[userId].expiresAt > MaxTime + SESSION_DURATION
     THEN /\ result' = Res("startDecryptionSession", "ok", NoPath)
          /\ UNCHANGED <<activeSessions, sessionKeyFile>>
     ELSE \E sessionKey \in SessionKeys :
          LET expiresAt == now + SESSION_DURATION
          IN  /\ activeSessions' =
                   [u \in DOMAIN activeSessions \cup {userId} |->
                      IF u = userId
                      THEN [sessionKey |-> sessionKey, derivedKeys |-> EmptyMap,
                            expiresAt |-> expiresAt]
                      ELSE activeSessions[u]]
              /\ IF encDir
                 THEN /\ sessionKeyFile' = [userId |-> userId, sessionKey |-> sessionKey,
                                            expiresAt |-> expiresAt]
                      /\ result' = Res("startDecryptionSession", "ok", NoPath)
                 ELSE /\ result' = Res("startDecryptionSession", "ENOENT", NoPath)
                      /\ UNCHANGED sessionKeyFile
  /\ UNCHANGED <<schedVars, authVars, gitVars, now, rndMaster, rndFile, session, encDir, masterFile, fs, accessLog,
                 kmVars, obsVars>>

startDecryptionSession(userId) ==
  /\ IF userId \in DOMAIN activeSessions /\ activeSessions[userId].expiresAt > now
     THEN /\ result' = Res("startDecryptionSession", "ok", NoPath)
          /\ UNCHANGED <<activeSessions, sessionKeyFile>>
     ELSE \E sessionKey \in SessionKeys :
          LET expiresAt == now + SESSION_DURATION
          IN  /\ activeSessions' =
                   [u \in DOMAIN activeSessions \cup {userId} |->
                      IF u = userId
                      THEN [sessionKey |-> sessionKey, derivedKeys |-> EmptyMap,
                            expiresAt |-> expiresAt]
                      ELSE activeSessions[u]]
              /\ IF encDir
                 THEN /\ sessionKeyFile' = [userId |-> userId, sessionKey |-> sessionKey,
                                            expiresAt |-> expiresAt]
                      /\ result' = Res("startDecryptionSession", "ok", NoPath)
                 ELSE /\ result' = Res("startDecryptionSession", "ENOENT", NoPath)
                      /\ UNCHANGED sessionKeyFile
  /\ UNCHANGED <<schedVars, authVars, gitVars, now, rndMaster, rndFile, session, encDir, masterFile, fs, accessLog,
                 kmVars, obsVars>>

endDecryptionSession(userId) ==
  /\ activeSessions' = [u \in DOMAIN activeSessions \ {userId} |-> activeSessions[u]]
  /\ sessionKeyFile' = NoFile
  /\ result' = Idle
  /\ UNCHANGED <<schedVars, authVars, gitVars, now, rndMaster, rndFile, session, encDir, masterFile, fs, accessLog,
                 kmVars, obsVars>>

\* a new process: new CryptoService(authService)
NewCryptoService ==
  /\ activeSessions' = EmptyMap
  /\ result' = Idle
  /\ UNCHANGED <<schedVars, authVars, gitVars, now, rndMaster, rndFile, session, encDir, masterFile, fs, accessLog,
                 sessionKeyFile, kmVars, obsVars>>

----------------------------------------------------------------------------
(* Environment *)

\* the user puts a plaintext file in the working directory
WriteFile(name, bytes) ==
  /\ name \notin DOMAIN fs
  /\ fs' = writeFile(fs, name, Plain(bytes))
  /\ result' = Idle
  /\ UNCHANGED <<schedVars, authVars, gitVars, now, rndMaster, rndFile, session, encDir, masterFile, accessLog, activeSessions,
                 sessionKeyFile, kmVars, obsVars>>

\* the envelope differs from what encryptFile wrote
Tampered(c) == c.metadata.authTag.x = 1 \/ c.metadata.iv.x = 1 \/ c.data.x = 1

\* somebody changes one field of an envelope on disk
Tamper(p, field) ==
  /\ p \in DOMAIN fs
  /\ IsEnvelope(fs[p])
  /\ ~Tampered(fs[p])
  /\ \/ field = "authTag" /\ fs' = [fs EXCEPT ![p].metadata.authTag.x = 1]
     \/ field = "iv" /\ fs' = [fs EXCEPT ![p].metadata.iv.x = 1]
     \/ field = "data" /\ fs' = [fs EXCEPT ![p].data.x = 1]
  /\ result' = Idle
  /\ UNCHANGED <<schedVars, authVars, gitVars, now, rndMaster, rndFile, session, encDir, masterFile, accessLog, activeSessions,
                 sessionKeyFile, kmVars, obsVars>>

Tick(d) ==
  /\ now + d <= MaxTime
  /\ now' = now + d
  /\ result' = Idle
  /\ UNCHANGED <<schedVars, authVars, gitVars, rndMaster, rndFile, session, encDir, masterFile, cryptoVars, kmVars, obsVars>>

----------------------------------------------------------------------------
(* KeyManager.  Its methods call one another and may throw half way, so    *)
(* each is a function on the record st of everything a method can touch:   *)
(* kh (keyHierarchy), file (key-hierarchy.json), sched, schedFile, log,    *)
(* dir, master (master.key), rnd, err (the exception thrown, "" if none)   *)
(* and ret (the value returned).                                           *)

\* Buffer.alloc(0) is the key 0; a key is its root and the labels applied
Key(root) == [root |-> root, path |-> <<>>]
Label(tag, id, t) == [tag |-> tag, id |-> id, t |-> t]
pbkdf2(parent, label) == [parent EXCEPT !.path = Append(@, label)]

\* forEach(([k, v]) => map.set(k, v))
setAll(map, entries) ==
  [x \in DOMAIN map \cup DOMAIN entries |-> IF x \in DOMAIN entries THEN entries[x] ELSE map[x]]

\* the KeyManager constructor
NewKeyHierarchy ==
  [masterKey |-> Key(0), systemKeys |-> EmptyMap, organizationKeys |-> EmptyMap,
   classificationKeys |-> EmptyMap, corporateKeys |-> EmptyMap,
   userSessionKeys |-> EmptyMap]

NoHierarchyFile ==
  [exists |-> FALSE, systemKeys |-> EmptyMap, organizationKeys |-> EmptyMap,
   classificationKeys |-> EmptyMap, corporateKeys |-> EmptyMap,
   userSessionKeys |-> EmptyMap]

\* key.toString('hex') and Buffer.from(keyHex, 'hex')
toHex(key) == [hex |-> key]
fromHex(keyHex) == keyHex.hex
entriesToHex(map) == [k \in DOMAIN map |-> toHex(map[k])]
entriesFromHex(entries) == [k \in DOMAIN entries |-> fromHex(entries[k])]

\* what saveKeyHierarchy writes: every map in hex, not the master key
serializable(kh) ==
  [exists |-> TRUE,
   systemKeys |-> entriesToHex(kh.systemKeys),
   organizationKeys |-> entriesToHex(kh.organizationKeys),
   classificationKeys |-> [o \in DOMAIN kh.classificationKeys |->
                             entriesToHex(kh.classificationKeys[o])],
   corporateKeys |-> [o \in DOMAIN kh.corporateKeys |->
                        entriesToHex(kh.corporateKeys[o])],
   userSessionKeys |-> entriesToHex(kh.userSessionKeys)]

failed(st) == st.err # ""
throw(st, e) == IF failed(st) THEN st ELSE [st EXCEPT !.err = e]

\* fs.writeJSON does not create the directory
saveKeyHierarchy(st) ==
  IF failed(st) THEN st
  ELSE IF ~st.dir THEN throw(st, "ENOENT")
  ELSE [st EXCEPT !.file = serializable(st.kh)]

loadKeyHierarchy(st) ==
  IF failed(st) \/ ~st.file.exists THEN st
  ELSE [st EXCEPT
          !.kh.systemKeys = setAll(@, entriesFromHex(st.file.systemKeys)),
          !.kh.organizationKeys = setAll(@, entriesFromHex(st.file.organizationKeys)),
          !.kh.classificationKeys =
             setAll(@, [o \in DOMAIN st.file.classificationKeys |->
                          entriesFromHex(st.file.classificationKeys[o])]),
          !.kh.corporateKeys =
             setAll(@, [o \in DOMAIN st.file.corporateKeys |->
                          entriesFromHex(st.file.corporateKeys[o])]),
          !.kh.userSessionKeys = setAll(@, entriesFromHex(st.file.userSessionKeys))]

saveRotationSchedules(st) ==
  IF failed(st) THEN st
  ELSE IF ~st.dir THEN throw(st, "ENOENT")
  ELSE [st EXCEPT !.schedFile = st.sched]

loadRotationSchedules(st) ==
  IF failed(st) THEN st ELSE [st EXCEPT !.sched = setAll(@, st.schedFile)]

scheduleKeyRotation(st, keyId, keyType) ==
  IF failed(st) THEN st
  ELSE saveRotationSchedules(
         [st EXCEPT !.sched = put(@, keyId,
            [keyType |-> keyType, lastRotated |-> now,
             nextRotation |-> now + KEY_ROTATION_INTERVAL,
             rotationInterval |-> KEY_ROTATION_INTERVAL, autoRotate |-> TRUE])])

logKeyRotation(st, keyType, keyId) ==
  IF failed(st) THEN st
  ELSE IF ~HasSession THEN throw(st, "NoSession")
  ELSE [st EXCEPT !.dir = TRUE, !.log = @ + 1]

generateMasterKey(st) ==
  IF failed(st) THEN st
  ELSE IF ~st.dir THEN throw(st, "ENOENT")
  ELSE [st EXCEPT !.master = st.rnd + 1, !.rnd = st.rnd + 1]

loadMasterKey(st) ==
  IF failed(st) THEN st
  ELSE IF st.master = 0 THEN throw(st, "ENOENT")
  ELSE [st EXCEPT !.kh.masterKey = Key(st.master)]

systemRoles == <<SYSTEM_OWNER, SYSTEM_ADMIN, SYSTEM_MEMBER>>

deriveSystemKeys(st) ==
  IF failed(st) THEN st
  ELSE saveKeyHierarchy(
         [st EXCEPT !.kh.systemKeys =
            [r \in DOMAIN @ \cup {systemRoles[i] : i \in 1..Len(systemRoles)} |->
               IF \E i \in 1..Len(systemRoles) : systemRoles[i] = r
               THEN pbkdf2(st.kh.masterKey, Label("sys", r, 0))
               ELSE @[r]]])

initialize(st) ==
  LET st1 == [st EXCEPT !.dir = TRUE]
      st2 == IF st1.master = 0 THEN generateMasterKey(st1) ELSE st1
  IN  deriveSystemKeys(loadRotationSchedules(loadKeyHierarchy(loadMasterKey(st2))))

deriveOrganizationKey(st, organizationId) ==
  IF failed(st) THEN st
  ELSE IF organizationId \in DOMAIN st.kh.organizationKeys
  THEN [st EXCEPT !.ret = st.kh.organizationKeys[organizationId]]
  ELSE LET orgKey == pbkdf2(st.kh.masterKey, Label("org", organizationId, 0))
           st1 == [st EXCEPT !.kh.organizationKeys = put(@, organizationId, orgKey),
                             !.ret = orgKey]
       IN  scheduleKeyRotation(saveKeyHierarchy(st1), <<"org", organizationId>>,
                               "organization")

deriveClassificationKey(st, organizationId, classification) ==
  IF failed(st) THEN st
  ELSE LET st0 == IF organizationId \in DOMAIN st.kh.classificationKeys THEN st
                  ELSE [st EXCEPT !.kh.classificationKeys =
                                     put(@, organizationId, EmptyMap)]
       IN  IF classification \in DOMAIN st0.kh.classificationKeys[organizationId]
           THEN [st0 EXCEPT !.ret = st0.kh.classificationKeys[organizationId][classification]]
           ELSE LET st1 == deriveOrganizationKey(st0, organizationId)
                    classKey == pbkdf2(st1.ret, Label("class", classification, 0))
                IN  IF failed(st1) THEN st1
                    ELSE saveKeyHierarchy(
                           [st1 EXCEPT !.kh.classificationKeys[organizationId] =
                                          put(@, classification, classKey),
                                       !.ret = classKey])

deriveCorporateKey(st, organizationId, classification, corporateLevel) ==
  IF failed(st) THEN st
  ELSE LET st0 == IF organizationId \in DOMAIN st.kh.corporateKeys THEN st
                  ELSE [st EXCEPT !.kh.corporateKeys = put(@, organizationId, EmptyMap)]
           corporateKeyId == <<classification, corporateLevel>>
       IN  IF corporateKeyId \in DOMAIN st0.kh.corporateKeys[organizationId]
           THEN [st0 EXCEPT !.ret = st0.kh.corporateKeys[organizationId][corporateKeyId]]
           ELSE LET st1 == deriveClassificationKey(st0, organizationId, classification)
                    corpKey == pbkdf2(st1.ret, Label("corp", corporateLevel, 0))
                IN  IF failed(st1) THEN st1
                    ELSE saveKeyHierarchy(
                           [st1 EXCEPT !.kh.corporateKeys[organizationId] =
                                          put(@, corporateKeyId, corpKey),
                                       !.ret = corpKey])

deriveUserSessionKey(st, userId, organizationId, classification, corporateLevel) ==
  IF failed(st) THEN st
  ELSE LET id == sessionKeyId(userId, organizationId, classification, corporateLevel)
       IN  IF id \in DOMAIN st.kh.userSessionKeys
           THEN [st EXCEPT !.ret = st.kh.userSessionKeys[id]]
           ELSE LET st1 == IF organizationId # NoOrg
                           THEN deriveCorporateKey(st, organizationId, classification,
                                                   corporateLevel)
                           ELSE IF ~HasSession THEN throw(st, "NoSession")
                           ELSE IF session.systemRole \notin DOMAIN st.kh.systemKeys
                           THEN throw(st, "SystemKeyNotFound")
                           ELSE [st EXCEPT !.ret = st.kh.systemKeys[session.systemRole]]
                    sessionKey == pbkdf2(st1.ret, Label("user", userId, now))
                IN  IF failed(st1) THEN st1
                    ELSE scheduleKeyRotation(
                           saveKeyHierarchy(
                             [st1 EXCEPT !.kh.userSessionKeys = put(@, id, sessionKey),
                                         !.ret = sessionKey]),
                           <<"user", userId>>, "user")

\* keyId.includes(`:${organizationId}:`): the id follows a colon and precedes one
includesOrg(keyId, organizationId) ==
  \E i \in 2..(Len(keyId) - 1) : keyId[i] = organizationId

\* a prefix test that matches every key id
startsWithUser_Always(keyId, userId) == keyId[1] = keyId[1]

\* keyId.startsWith(`${userId}:`)
startsWithUser(keyId, userId) == keyId[1] = userId

\* rotateOrganizationKeys leaving the user-session keys in place
rotateOrganizationKeys_KeepsUserKeys(st, organizationId) ==
  LET st1 == [st EXCEPT !.kh.organizationKeys = delete(@, organizationId),
                        !.kh.classificationKeys = delete(@, organizationId),
                        !.kh.corporateKeys = delete(@, organizationId)]
  IN  logKeyRotation(saveKeyHierarchy(deriveOrganizationKey(st1, organizationId)),
                     "organization", organizationId)

rotateOrganizationKeys(st, organizationId) ==
  LET userKeysToRotate == {k \in DOMAIN st.kh.userSessionKeys :
                             includesOrg(k, organizationId)}
      st1 == [st EXCEPT !.kh.organizationKeys = delete(@, organizationId),
                        !.kh.classificationKeys = delete(@, organizationId),
                        !.kh.corporateKeys = delete(@, organizationId),
                        !.kh.userSessionKeys =
                           [k \in DOMAIN @ \ userKeysToRotate |-> @[k]]]
  IN  logKeyRotation(saveKeyHierarchy(deriveOrganizationKey(st1, organizationId)),
                     "organization", organizationId)

rotateUserSessionKeys(st, userId) ==
  LET userKeysToRotate == {k \in DOMAIN st.kh.userSessionKeys : startsWithUser(k, userId)}
      st1 == [st EXCEPT !.kh.userSessionKeys =
                           [k \in DOMAIN @ \ userKeysToRotate |-> @[k]]]
  IN  logKeyRotation(saveKeyHierarchy(st1), "user", userId)

\* rotateMasterKey without clearing the organization keys
rotateMasterKey_KeepsOrganizationKeys(st) ==
  LET st1 == loadMasterKey(generateMasterKey(st))
      st2 == IF failed(st1) THEN st1
             ELSE [st1 EXCEPT !.kh.systemKeys = EmptyMap,
                              !.kh.classificationKeys = EmptyMap,
                              !.kh.corporateKeys = EmptyMap,
                              !.kh.userSessionKeys = EmptyMap]
  IN  logKeyRotation(saveKeyHierarchy(deriveSystemKeys(st2)), "master", "system")

rotateMasterKey(st) ==
  LET st1 == loadMasterKey(generateMasterKey(st))
      st2 == IF failed(st1) THEN st1
             ELSE [st1 EXCEPT !.kh.systemKeys = EmptyMap,
                              !.kh.organizationKeys = EmptyMap,
                              !.kh.classificationKeys = EmptyMap,
                              !.kh.corporateKeys = EmptyMap,
                              !.kh.userSessionKeys = EmptyMap]
  IN  logKeyRotation(saveKeyHierarchy(deriveSystemKeys(st2)), "master", "system")

\* the rotation checkAndPerformScheduledRotations picks for an entry;
\* keyId.replace('org:', '') and keyId.replace('user:', '') leave the id
rotateByType(st, keyId, keyType) ==
  IF keyType = "master" THEN rotateMasterKey(st)
  ELSE IF keyType = "organization" THEN rotateOrganizationKeys(st, keyId[2])
  ELSE IF keyType = "user" THEN rotateUserSessionKeys(st, keyId[2])
  ELSE st

\* schedule.lastRotated = now; schedule.nextRotation = now + schedule.rotationInterval.
\* schedule is the object the iteration handed out: rotateOrganizationKeys has
\* put a new object under org:<id> (deriveOrganizationKey calls
\* scheduleKeyRotation), so for it the assignments do not reach the map.
reschedule(st, keyId, schedule) ==
  IF failed(st) THEN st
  ELSE saveRotationSchedules(
         IF schedule.keyType = "organization" /\ keyId[1] = "org" THEN st
         ELSE [st EXCEPT !.sched[keyId] =
                 [schedule EXCEPT !.lastRotated = now,
                                  !.nextRotation = now + schedule.rotationInterval]])

\* the loop of checkAndPerformScheduledRotations over the key ids left, in the
\* order of the Map; nothing catches what a rotation throws.  failing: the key
\* ids at whose rotation the append to key-rotation.log rejects
RECURSIVE rotateDue(_, _, _)
rotateDue(st, keyIds, failing) ==
  IF failed(st) \/ Len(keyIds) = 0 THEN st
  ELSE LET keyId == Head(keyIds)
           schedule == st.sched[keyId]
           rotated == rotateByType(st, keyId, schedule.keyType)
           st1 == IF keyId \in failing THEN throw(rotated, "EIO") ELSE rotated
       IN  IF schedule.autoRotate /\ now >= schedule.nextRotation
           THEN rotateDue(reschedule(st1, keyId, schedule), Tail(keyIds), failing)
           ELSE rotateDue(st, Tail(keyIds), failing)

checkAndPerformScheduledRotations(st, keyIds, failing) == rotateDue(st, keyIds, failing)

----------------------------------------------------------------------------
(* KeyManager: the calls *)

KMState ==
  [kh |-> keyHierarchy, file |-> keyHierarchyFile, sched |-> keyRotationSchedules,
   schedFile |-> rotationScheduleFile, log |-> rotationLog, dir |-> encDir,
   master |-> masterFile, rnd |-> rndMaster, err |-> "", ret |-> Key(0)]

\* the state a call leaves, thrown or returned
KMCall(op, arg, st) ==
  /\ keyHierarchy' = st.kh
  /\ keyHierarchyFile' = st.file
  /\ keyRotationSchedules' = st.sched
  /\ rotationScheduleFile' = st.schedFile
  /\ rotationLog' = st.log
  /\ encDir' = st.dir
  /\ masterFile' = st.master
  /\ rndMaster' = st.rnd
  /\ result' = ResKM(op, IF failed(st) THEN st.err ELSE "ok", arg, keyHierarchy)
                 @@ [ret |-> st.ret]
  /\ UNCHANGED <<schedVars, authVars, gitVars, now, rndFile, session, cryptoVars, obsVars>>

KMInitialize ==
  /\ masterFile = 0 => rndMaster < MaxMaster
  /\ KMCall("KeyManager.initialize", NoPath, initialize(KMState))

\* a new process: new KeyManager(authService)
NewKeyManager ==
  /\ keyHierarchy' = NewKeyHierarchy
  /\ keyRotationSchedules' = EmptyMap
  /\ result' = Idle
  /\ UNCHANGED <<schedVars, authVars, gitVars, now, rndMaster, rndFile, session, encDir, masterFile, cryptoVars,
                 keyHierarchyFile, rotationScheduleFile, rotationLog, obsVars>>

DeriveOrganizationKey(o) ==
  KMCall("deriveOrganizationKey", <<o>>, deriveOrganizationKey(KMState, o))

DeriveClassificationKey(o, c) ==
  KMCall("deriveClassificationKey", <<o, c>>, deriveClassificationKey(KMState, o, c))

DeriveCorporateKey(o, c, l) ==
  KMCall("deriveCorporateKey", <<o, c, l>>, deriveCorporateKey(KMState, o, c, l))

DeriveUserSessionKey(u, o, c, l) ==
  KMCall("deriveUserSessionKey", sessionKeyId(u, o, c, l),
         deriveUserSessionKey(KMState, u, o, c, l))

RotateOrganizationKeys(o) ==
  /\ rotationLog < MaxLog
  /\ KMCall("rotateOrganizationKeys", <<o>>, rotateOrganizationKeys(KMState, o))

RotateUserSessionKeys(u) ==
  /\ rotationLog < MaxLog
  /\ KMCall("rotateUserSessionKeys", <<u>>, rotateUserSessionKeys(KMState, u))

RotateMasterKey ==
  /\ rndMaster < MaxMaster
  /\ rotationLog < MaxLog
  /\ KMCall("rotateMasterKey", NoPath, rotateMasterKey(KMState))

\* the process dies in rotateMasterKey() once generateMasterKey has written the
\* new master.key and before deriveSystemKeys persists the hierarchy
RotateMasterKeyCrash ==
  /\ rndMaster < MaxMaster
  /\ \E st \in {generateMasterKey(KMState)} :
       /\ ~failed(st)
       /\ masterFile' = st.master
       /\ rndMaster' = st.rnd
  /\ keyHierarchy' = NewKeyHierarchy
  /\ keyRotationSchedules' = EmptyMap
  /\ result' = ResKM("rotateMasterKey", "crashed", NoPath, keyHierarchy)
  /\ UNCHANGED <<schedVars, authVars, gitVars, now, rndFile, session, encDir, cryptoVars,
                 keyHierarchyFile, rotationScheduleFile, rotationLog, obsVars>>

\* the entries of a Map in each order they may have been inserted
Orders(map) ==
  {o \in [1..Cardinality(DOMAIN map) -> DOMAIN map] :
     \A i, j \in 1..Cardinality(DOMAIN map) : o[i] = o[j] => i = j}

CheckAndPerformScheduledRotations(failing) ==
  \E keyIds \in Orders(keyRotationSchedules) :
    \E st \in {checkAndPerformScheduledRotations(KMState, keyIds, failing)} :
      /\ st.rnd <= MaxMaster
      /\ st.log <= MaxLog
      /\ keyHierarchy' = st.kh
      /\ keyHierarchyFile' = st.file
      /\ keyRotationSchedules' = st.sched
      /\ rotationScheduleFile' = st.schedFile
      /\ rotationLog' = st.log
      /\ encDir' = st.dir
      /\ masterFile' = st.master
      /\ rndMaster' = st.rnd
      /\ lastCheck' = IF failed(st) THEN lastCheck ELSE now
      /\ result' = ResKM("checkAndPerformScheduledRotations",
                         IF failed(st) THEN st.err ELSE "ok", <<keyIds, failing>>,
                         keyHierarchy)
      /\ UNCHANGED <<authVars, gitVars, now, rndFile, session, cryptoVars, obsVars>>

\* rotation-schedule.json rewritten by hand: the only way to set an interval or
\* to switch autoRotate off
EditSchedule(keyId, schedule) ==
  /\ rotationScheduleFile' = put(rotationScheduleFile, keyId, schedule)
  /\ result' = Idle
  /\ UNCHANGED <<schedVars, authVars, gitVars, now, rndMaster, rndFile, session, encDir,
                 masterFile, cryptoVars, keyHierarchy, keyHierarchyFile,
                 keyRotationSchedules, rotationLog, obsVars>>

\* the clock advances; a pass of the scheduled rotations returns at least once
\* per CheckPeriod
Elapse(d) ==
  /\ now + d <= MaxClock
  /\ now + d <= lastCheck + CheckPeriod
  /\ now' = now + d
  /\ result' = Idle
  /\ UNCHANGED <<schedVars, authVars, gitVars, rndMaster, rndFile, session, encDir,
                 masterFile, cryptoVars, kmVars, obsVars>>

----------------------------------------------------------------------------
(* GitService: the transaction.  Each method is a function on a record st  *)
(* with the fields transactionActive, transactionFiles, err and ret.       *)

\* the paths handed to addToTransaction
GitPaths == {<<"a", ".json">>, <<"b", ".json">>, <<"b", ".json", ENC>>}

\* Array.prototype.includes
includes(arr, x) == \E i \in 1..Len(arr) : arr[i] = x

startTransaction(st) ==
  IF failed(st) THEN st
  ELSE IF st.transactionActive THEN throw(st, "Transaction already active")
  ELSE [st EXCEPT !.transactionActive = TRUE, !.transactionFiles = <<>>]

\* git.reset may throw; the error is caught and the finally block runs either way
rollbackTransaction(st) ==
  IF failed(st) \/ ~st.transactionActive THEN st
  ELSE [st EXCEPT !.transactionActive = FALSE, !.transactionFiles = <<>>]

\* gitOk: git.add and git.commit both succeed
commitTransaction(st, gitOk) ==
  IF failed(st) THEN st
  ELSE IF ~st.transactionActive THEN throw(st, "No transaction active")
  ELSE IF Len(st.transactionFiles) = 0 \/ ~gitOk
  THEN throw(rollbackTransaction(st), "Commit failed")
  ELSE [st EXCEPT !.transactionActive = FALSE, !.transactionFiles = <<>>,
                  !.ret = "commit"]

\* addToTransaction appending a path that is already tracked
addToTransaction_Always(st, filePath) ==
  IF failed(st) THEN st
  ELSE IF ~st.transactionActive THEN throw(st, "No transaction active")
  ELSE [st EXCEPT !.transactionFiles = Append(@, filePath)]

addToTransaction(st, filePath) ==
  IF failed(st) THEN st
  ELSE IF ~st.transactionActive THEN throw(st, "No transaction active")
  ELSE IF ~includes(st.transactionFiles, filePath)
  THEN [st EXCEPT !.transactionFiles = Append(@, filePath)]
  ELSE st

GitState ==
  [transactionActive |-> transactionActive, transactionFiles |-> transactionFiles,
   err |-> "", ret |-> ""]

\* the state a call of GitService leaves, thrown or returned
GitCall(op, arg, st) ==
  /\ transactionActive' = st.transactionActive
  /\ transactionFiles' = st.transactionFiles
  /\ result' = ResKM(op, IF failed(st) THEN st.err ELSE "ok", arg,
                     [transactionActive |-> transactionActive,
                      transactionFiles |-> transactionFiles])
  /\ UNCHANGED <<schedVars, authVars, now, rndMaster, rndFile, session, encDir, masterFile,
                 cryptoVars, kmVars, obsVars>>

StartTransaction == GitCall("startTransaction", NoPath, startTransaction(GitState))

CommitTransaction(gitOk) ==
  GitCall("commitTransaction", NoPath, commitTransaction(GitState, gitOk))

RollbackTransaction ==
  GitCall("rollbackTransaction", NoPath, rollbackTransaction(GitState))

AddToTransaction(filePath) ==
  /\ Len(transactionFiles) < Cardinality(GitPaths) + 1
  /\ GitCall("addToTransaction", filePath, addToTransaction(GitState, filePath))

----------------------------------------------------------------------------
(* EncryptedFileRepository.  Its methods call CryptoService and GitService *)
(* and may throw half way, so each is a function on the record w of what   *)
(* they can touch: fs, activeSessions, accessLog, rndFile, encryptedUnder, *)
(* transactionActive, transactionFiles, err (the exception thrown, "" if   *)
(* none), ret (the value returned) and previous (the call made before this *)
(* one, observation only).  The session and master.key are read, never     *)
(* written.                                                                *)

\* the repository of one entity type: new EncryptedFileRepository(entityType,
\* gitService, authService, encryptedOptions)
EntityType == "project"
encryptedOptions ==
  [organizationId |-> "org-1", classification |-> UNCLASSIFIED,
   corporateLevel |-> "MEMBER", autoEncrypt |-> TRUE]

\* `organizations/${organizationId}/${entityType}s`
getEntityDirectory == "organizations/org-1/projects/"

\* the directories below the entity directory: path -> name.  A directory
\* exists while it holds a file.
Subdirectories ==
  ("organizations/org-1/projects/sub/" :> "sub")
  @@ ("organizations/org-1/projects/.git/" :> ".git")
  @@ ("organizations/org-1/projects/node_modules/" :> "node_modules")
Directories == {getEntityDirectory} \cup DOMAIN Subdirectories

\* path.join(getEntityDirectory(), `${id}.json`)
getEntityPath(id) == <<getEntityDirectory, id, ".json">>

\* path.basename
basename(p) == IF Len(p) > 0 /\ p[1] \in Directories THEN Tail(p) ELSE p

\* the bytes of a file: JSON text of a value, or text that does not parse
stringify(v) == [json |-> v]
NotJSON == [text |-> "{"]
isJSON(b) == "json" \in DOMAIN b

\* a path fs.readFile fails on (a directory, a file without read permission)
Unreadable == [kind |-> "unreadable"]

Null == [null |-> TRUE]

\* fs.readJSON(p) succeeds
readsJSON(files, p) ==
  /\ p \in DOMAIN files
  /\ \/ IsEnvelope(files[p])
     \/ files[p].kind = "plain" /\ isJSON(files[p].bytes)

\* the value fs.readJSON(p) returns
readJSON(files, p) ==
  IF IsEnvelope(files[p]) THEN files[p] ELSE files[p].bytes.json

\* encryptFile leaving the plaintext file in place
encryptFileOn_KeepsPlaintext(w, filePath, organizationId, classification, corporateLevel) ==
  IF failed(w) THEN w
  ELSE IF ~HasSession THEN throw(w, "NoSession")
  ELSE IF filePath \notin DOMAIN w.fs THEN throw(w, "FileNotFound")
  ELSE IF w.fs[filePath].kind = "unreadable" THEN throw(w, "ReadFailed")
  ELSE IF masterFile = 0 THEN throw(w, "KeyMaterialMissing")
  ELSE LET fileBuffer == w.fs[filePath]
           fileName == basename(filePath)
           iv == w.rndFile + 1
           salt == w.rndFile + 1
           d == deriveFileKey(w.activeSessions, masterFile, session.id, organizationId,
                              classification, corporateLevel, salt)
           encryptedPath == filePath \o <<ENC>>
       IN  [w EXCEPT
              !.rndFile = @ + 1,
              !.activeSessions = d.sessions,
              !.fs = writeFile(@, encryptedPath,
                               encryptedFile(d.key, session.id, organizationId,
                                             classification, corporateLevel,
                                             fileName, fileBuffer, iv, salt)),
              !.encryptedUnder = put(@, encryptedPath, masterFile),
              !.ret = encryptedPath]

\* CryptoService.encryptFile on w
encryptFileOn(w, filePath, organizationId, classification, corporateLevel) ==
  IF failed(w) THEN w
  ELSE IF ~HasSession THEN throw(w, "NoSession")
  ELSE IF filePath \notin DOMAIN w.fs THEN throw(w, "FileNotFound")
  ELSE IF w.fs[filePath].kind = "unreadable" THEN throw(w, "ReadFailed")
  ELSE IF masterFile = 0 THEN throw(w, "KeyMaterialMissing")
  ELSE LET fileBuffer == w.fs[filePath]
           fileName == basename(filePath)
           iv == w.rndFile + 1
           salt == w.rndFile + 1
           d == deriveFileKey(w.activeSessions, masterFile, session.id, organizationId,
                              classification, corporateLevel, salt)
           encryptedPath == filePath \o <<ENC>>
       IN  [w EXCEPT
              !.rndFile = @ + 1,
              !.activeSessions = d.sessions,
              !.fs = remove(writeFile(@, encryptedPath,
                              encryptedFile(d.key, session.id, organizationId,
                                            classification, corporateLevel,
                                            fileName, fileBuffer, iv, salt)),
                            filePath),
              !.encryptedUnder = put(@, encryptedPath, masterFile),
              !.ret = encryptedPath]

\* CryptoService.decryptFile on w
decryptFileOn(w, encryptedPath, outputPath) ==
  IF failed(w) THEN w
  ELSE IF ~HasSession THEN throw(w, "NoSession")
  ELSE IF encryptedPath \notin DOMAIN w.fs THEN throw(w, "FileNotFound")
  ELSE IF ~IsEnvelope(w.fs[encryptedPath]) THEN throw(w, "Malformed")
  ELSE IF ~canDecryptFile(w.fs[encryptedPath].metadata, session.id, session)
  THEN throw(w, "AccessDenied")
  ELSE IF masterFile = 0 THEN throw(w, "KeyMaterialMissing")
  ELSE LET metadata == w.fs[encryptedPath].metadata
           encryptedData == w.fs[encryptedPath].data
           d == deriveFileKey(w.activeSessions, masterFile, metadata.encryptedBy,
                              metadata.organizationId, metadata.classification,
                              metadata.corporateLevel, metadata.salt)
           aad == AAD(metadata.encryptedBy, metadata.organizationId,
                      metadata.classification, metadata.corporateLevel,
                      replace(basename(encryptedPath), ENC))
           out == finalPath(encryptedPath, outputPath)
           w1 == [w EXCEPT !.activeSessions = d.sessions]
       IN  IF decipherFinalOk(d.key, aad, encryptedData, metadata.authTag)
           THEN [w1 EXCEPT !.fs = writeFile(@, out, encryptedData.pt),
                           !.accessLog = logDecryptOperation(@),
                           !.ret = out]
           ELSE throw(w1, "DecryptionFailed")

\* CryptoService.getFileMetadata: null unless the file is an envelope
getFileMetadata(files, encryptedPath) ==
  IF encryptedPath \in DOMAIN files /\ IsEnvelope(files[encryptedPath])
  THEN files[encryptedPath].metadata
  ELSE Null

writeEntityFile(w, entity, entityPath) ==
  IF failed(w) THEN w
  ELSE LET entityWithMetadata ==
             [entityType |-> EntityType, lastModified |-> now,
              encryptionReady |-> TRUE] @@ entity
       IN  addToTransaction([w EXCEPT !.fs = writeFile(@, entityPath,
                                                   Plain(stringify(entityWithMetadata)))],
                            entityPath)

encryptEntityFile(w, entityPath, entityId) ==
  IF failed(w) THEN w
  ELSE IF entityPath \notin DOMAIN w.fs THEN throw(w, "EntityFileNotFound")
  ELSE LET w1 == encryptFileOn(w, entityPath, encryptedOptions.organizationId,
                               encryptedOptions.classification,
                               encryptedOptions.corporateLevel)
       IN  IF failed(w1) THEN w1 ELSE addToTransaction(w1, w1.ret)

decryptEntityFile(w, encryptedPath, entityId) ==
  IF failed(w) THEN w
  ELSE IF ~HasSession THEN throw(w, "NoSession")
  ELSE LET metadata == getFileMetadata(w.fs, encryptedPath)
       IN  IF metadata = Null THEN throw(w, "InvalidEncryptedFile")
           ELSE IF ~validateUserKeyAccess(session.id, metadata.organizationId,
                                          metadata.classification,
                                          metadata.corporateLevel, session)
           THEN throw(w, "AccessDenied")
           ELSE decryptFileOn(w, encryptedPath, NoPath)

findById(w, id) ==
  LET entityPath == getEntityPath(id)
      encryptedPath == entityPath \o <<ENC>>
      w1 == IF encryptedPath \in DOMAIN w.fs
            THEN decryptEntityFile(w, encryptedPath, id)
            ELSE [w EXCEPT !.ret = entityPath]
      filePath == w1.ret
  IN  IF failed(w) \/ failed(w1) THEN w1
      ELSE IF encryptedPath \notin DOMAIN w.fs /\ entityPath \notin DOMAIN w.fs
      THEN [w EXCEPT !.ret = Null]
      ELSE IF ~readsJSON(w1.fs, filePath) THEN [w1 EXCEPT !.ret = Null]
      ELSE LET entity == readJSON(w1.fs, filePath)
           IN  IF encryptedPath \in DOMAIN w1.fs /\ filePath # entityPath
               THEN [w1 EXCEPT !.fs = remove(@, filePath), !.ret = entity]
               ELSE [w1 EXCEPT !.ret = entity]

\* version.split('.'), parseInt(parts[2] || '0') + 1: a version is the
\* sequence of its components
incrementVersion(version) ==
  LET parts == version
      patch == (IF Len(parts) >= 3 THEN parts[3] ELSE 0) + 1
  IN  <<parts[1], parts[2], patch>>

create(w, id, entityData) ==
  IF failed(w) THEN w
  ELSE IF ~HasSession THEN throw(w, "NoSession")
  ELSE LET entity == [id |-> id, createdAt |-> now, updatedAt |-> now,
                      createdBy |-> session.id, version |-> <<1, 0, 0>>] @@ entityData
           entityPath == getEntityPath(id)
           w1 == writeEntityFile(w, entity, entityPath)
           w2 == IF encryptedOptions.autoEncrypt
                 THEN encryptEntityFile(w1, entityPath, id) ELSE w1
       IN  IF failed(w2) THEN w2 ELSE [w2 EXCEPT !.ret = entity]

update(w, id, updateData) ==
  LET w1 == findById(w, id)
      existingEntity == w1.ret
  IN  IF failed(w1) THEN w1
      ELSE IF existingEntity = Null THEN throw(w1, "NotFound")
      ELSE IF ~HasSession THEN throw(w1, "NoSession")
      ELSE LET updatedEntity ==
                 [id |-> id, updatedAt |-> now, updatedBy |-> session.id,
                  version |-> incrementVersion(existingEntity.version)]
                 @@ updateData @@ existingEntity
               entityPath == getEntityPath(id)
               encryptedPath == entityPath \o <<ENC>>
               w2 == IF encryptedPath \in DOMAIN w1.fs
                     THEN [w1 EXCEPT !.fs = remove(@, encryptedPath)] ELSE w1
               w3 == writeEntityFile(w2, updatedEntity, entityPath)
               w4 == IF encryptedOptions.autoEncrypt
                     THEN encryptEntityFile(w3, entityPath, id) ELSE w3
           IN  IF failed(w4) THEN w4 ELSE [w4 EXCEPT !.ret = updatedEntity]


\* the stored plaintext entities have a patch number below the bound
patchBelow(files, n) ==
  \A p \in DOMAIN files :
    (files[p].kind = "plain" /\ isJSON(files[p].bytes)
     /\ Len(files[p].bytes.json.version) >= 3)
    => files[p].bytes.json.version[3] < n

RepoState ==
  [fs |-> fs, activeSessions |-> activeSessions, accessLog |-> accessLog,
   rndFile |-> rndFile, encryptedUnder |-> encryptedUnder,
   transactionActive |-> transactionActive, transactionFiles |-> transactionFiles,
   err |-> "", ret |-> <<>>,
   previous |-> [op |-> result.op, status |-> result.status,
                 ret |-> IF "ret" \in DOMAIN result THEN result.ret ELSE <<>>]]

\* the state a call of the repository leaves, thrown or returned
RepoCall(op, arg, w) ==
  /\ fs' = w.fs
  /\ activeSessions' = w.activeSessions
  /\ accessLog' = w.accessLog
  /\ rndFile' = w.rndFile
  /\ encryptedUnder' = w.encryptedUnder
  /\ transactionActive' = w.transactionActive
  /\ transactionFiles' = w.transactionFiles
  /\ result' = ResKM(op, IF failed(w) THEN w.err ELSE "ok", arg, fs)
                 @@ [ret |-> w.ret, previous |-> w.previous]
  /\ UNCHANGED <<schedVars, authVars, now, rndMaster, session, encDir, masterFile, sessionKeyFile,
                 kmVars>>

\* the call stays within the bounds on salts drawn and log entries written
withinBounds(w) == w.rndFile <= MaxFile /\ w.accessLog <= MaxLog

\* generateId() returns an id no stored entity has
Create(id, entityData) ==
  /\ getEntityPath(id) \notin DOMAIN fs
  /\ getEntityPath(id) \o <<ENC>> \notin DOMAIN fs
  /\ \E w \in {create(RepoState, id, entityData)} :
       withinBounds(w) /\ RepoCall("create", <<id, entityData>>, w)

FindById(id) ==
  /\ \E w \in {findById(RepoState, id)} :
       withinBounds(w) /\ RepoCall("findById", <<id>>, w)

Update(id, updateData) ==
  /\ patchBelow(fs, MaxPatch)
  /\ \E w \in {update(RepoState, id, updateData)} :
       withinBounds(w) /\ RepoCall("update", <<id, updateData>>, w)

\* data written before the repository encrypted: a plaintext entity file
PutEntity(entity) ==
  /\ getEntityPath(entity.id) \notin DOMAIN fs
  /\ getEntityPath(entity.id) \o <<ENC>> \notin DOMAIN fs
  /\ fs' = writeFile(fs, getEntityPath(entity.id), Plain(stringify(entity)))
  /\ result' = Idle
  /\ UNCHANGED <<schedVars, authVars, gitVars, now, rndMaster, rndFile, session, encDir, masterFile, accessLog,
                 activeSessions, sessionKeyFile, kmVars, obsVars>>

----------------------------------------------------------------------------
(* Bulk operations of CryptoService and EncryptedFileRepository.  files is *)
(* what fs.readdir returned, in the order it returned it.                  *)

\* String.prototype.endsWith on a tokenised name
endsWith(p, tok) == Len(p) > 0 /\ p[Len(p)] = tok
endsWithJsonEncrypted(p) == Len(p) > 1 /\ p[Len(p)] = ENC /\ p[Len(p) - 1] = ".json"

\* the files of a directory
readdir(files, dir) == {p \in DOMAIN files : p[1] = dir}

\* fs.readdir: the files and the directories of a directory
readdirAll(files, dir) ==
  readdir(files, dir)
    \cup IF dir = getEntityDirectory
         THEN {<<d>> : d \in {c \in DOMAIN Subdirectories : readdir(files, c) # {}}}
         ELSE {}

\* fs.stat(itemPath).isDirectory()
statIsDirectory(files, itemPath) ==
  Len(itemPath) = 1 /\ itemPath[1] \in DOMAIN Subdirectories
    /\ readdir(files, itemPath[1]) # {}

\* item.startsWith('.') for the name of a file or directory
DotNames == {".env", ".git", ".json", ENC}
itemName(itemPath) ==
  IF Len(itemPath) = 1 THEN Subdirectories[itemPath[1]] ELSE itemPath[2]
startsWithDot(item) == item \in DotNames

\* a subdirectory is listed in one order
listing(files, dir) ==
  CHOOSE s \in [1..Cardinality(readdirAll(files, dir)) -> readdirAll(files, dir)] :
    \A i, j \in 1..Cardinality(readdirAll(files, dir)) : s[i] = s[j] => i = j

\* catch (error) { console.warn(...) }: the loop goes on; ret is left alone
caught_Rethrows(w) == w
caught(w) == [w EXCEPT !.err = ""]

\* encryptDirectory / decryptDirectory: processDirectory over the items left,
\* done the paths pushed so far.  fs.stat is outside the try block.  The items
\* of a directory entered are processed before the items left.
RECURSIVE encryptItems(_, _, _, _, _, _)
encryptItems(w, items, done, organizationId, classification, corporateLevel) ==
  IF failed(w) THEN w
  ELSE IF Len(items) = 0 THEN [w EXCEPT !.ret = done]
  ELSE LET itemPath == Head(items)
           w1 == encryptFileOn(w, itemPath, organizationId, classification, corporateLevel)
       IN  IF statIsDirectory(w.fs, itemPath)
           THEN encryptItems(w, IF ~startsWithDot(itemName(itemPath))
                                   /\ itemName(itemPath) # "node_modules"
                                THEN listing(w.fs, itemPath[1]) \o Tail(items)
                                ELSE Tail(items),
                             done, organizationId, classification, corporateLevel)
           ELSE IF itemPath \notin DOMAIN w.fs THEN throw(w, "ENOENT")
           ELSE IF endsWith(itemPath, ENC)
           THEN encryptItems(w, Tail(items), done, organizationId, classification,
                             corporateLevel)
           ELSE encryptItems(caught(w1), Tail(items),
                             IF failed(w1) THEN done ELSE Append(done, w1.ret),
                             organizationId, classification, corporateLevel)

encryptDirectory(w, items, organizationId, classification, corporateLevel) ==
  encryptItems(w, items, <<>>, organizationId, classification, corporateLevel)

RECURSIVE decryptItems(_, _, _)
decryptItems(w, items, done) ==
  IF failed(w) THEN w
  ELSE IF Len(items) = 0 THEN [w EXCEPT !.ret = done]
  ELSE LET itemPath == Head(items)
           w1 == decryptFileOn(w, itemPath, NoPath)
       IN  IF statIsDirectory(w.fs, itemPath)
           THEN decryptItems(w, listing(w.fs, itemPath[1]) \o Tail(items), done)
           ELSE IF itemPath \notin DOMAIN w.fs THEN throw(w, "ENOENT")
           ELSE IF ~endsWith(itemPath, ENC)
           THEN decryptItems(w, Tail(items), done)
           ELSE decryptItems(caught(w1), Tail(items),
                             IF failed(w1) THEN done ELSE Append(done, w1.ret))

decryptDirectory(w, items) == decryptItems(w, items, <<>>)

\* encryptAllFiles: the path is pushed before addToTransaction is called
RECURSIVE encryptAll(_, _, _)
encryptAll(w, files, done) ==
  IF failed(w) THEN w
  ELSE IF Len(files) = 0 THEN [w EXCEPT !.ret = done]
  ELSE LET filePath == Head(files)
           w1 == encryptFileOn(w, filePath, encryptedOptions.organizationId,
                               encryptedOptions.classification,
                               encryptedOptions.corporateLevel)
           w2 == IF failed(w1) THEN w1 ELSE addToTransaction(w1, w1.ret)
       IN  IF endsWith(filePath, ".json")
           THEN encryptAll(caught(w2), Tail(files),
                           IF failed(w1) THEN done ELSE Append(done, w1.ret))
           ELSE encryptAll(w, Tail(files), done)

encryptAllFiles(w, files) == encryptAll(w, files, <<>>)

RECURSIVE decryptAll(_, _, _)
decryptAll(w, files, done) ==
  IF failed(w) THEN w
  ELSE IF Len(files) = 0 THEN [w EXCEPT !.ret = done]
  ELSE LET encryptedPath == Head(files)
           w1 == decryptFileOn(w, encryptedPath, NoPath)
       IN  IF endsWithJsonEncrypted(encryptedPath)
           THEN decryptAll(caught(w1), Tail(files),
                           IF failed(w1) THEN done ELSE Append(done, w1.ret))
           ELSE decryptAll(w, Tail(files), done)

decryptAllFiles(w, files) == decryptAll(w, files, <<>>)

\* migrateToEncryption over the unencrypted .json files left
RECURSIVE migrate(_, _, _, _)
migrate(w, unencryptedFiles, migrated, errors) ==
  IF failed(w) THEN w
  ELSE IF Len(unencryptedFiles) = 0
  THEN [w EXCEPT !.ret = [migrated |-> migrated, errors |-> errors]]
  ELSE LET filePath == Head(unencryptedFiles)
           id == filePath[2]
           w1 == IF ~readsJSON(w.fs, filePath) THEN throw(w, "ParseFailed")
                 ELSE encryptEntityFile(w, filePath, id)
       IN  IF failed(w1)
           THEN migrate(caught(w1), Tail(unencryptedFiles), migrated,
                        Append(errors, [file |-> filePath, error |-> w1.err]))
           ELSE migrate(w1, Tail(unencryptedFiles), Append(migrated, filePath), errors)

migrateToEncryption(w, files) ==
  migrate(w, filter(files, [i \in 1..Len(files) |-> endsWith(files[i], ".json")]),
          <<>>, <<>>)

\* the orders in which fs.readdir may list a directory
Listings(entries) ==
  {s \in [1..Cardinality(entries) -> entries] :
     \A i, j \in 1..Cardinality(entries) : s[i] = s[j] => i = j}

\* a bulk call
BulkCall(op, outcome) ==
  \E w \in {outcome} : withinBounds(w) /\ RepoCall(op, NoPath, w)

EncryptDirectory ==
  \E items \in Listings(readdirAll(fs, getEntityDirectory)) :
    BulkCall("encryptDirectory",
             encryptDirectory(RepoState, items, encryptedOptions.organizationId,
                              encryptedOptions.classification,
                              encryptedOptions.corporateLevel))

DecryptDirectory ==
  \E items \in Listings(readdirAll(fs, getEntityDirectory)) :
    BulkCall("decryptDirectory", decryptDirectory(RepoState, items))

EncryptAllFiles ==
  \E files \in Listings(readdir(fs, getEntityDirectory)) :
    BulkCall("encryptAllFiles", encryptAllFiles(RepoState, files))

DecryptAllFiles ==
  \E files \in Listings(readdir(fs, getEntityDirectory)) :
    BulkCall("decryptAllFiles", decryptAllFiles(RepoState, files))

MigrateToEncryption ==
  \E files \in Listings(readdir(fs, getEntityDirectory)) :
    BulkCall("migrateToEncryption", migrateToEncryption(RepoState, files))

\* somebody puts a file in the entity directory
PutFile(name, content) ==
  /\ name \notin DOMAIN fs
  /\ name \o <<ENC>> \notin DOMAIN fs
  /\ fs' = writeFile(fs, name, content)
  /\ result' = Idle
  /\ UNCHANGED <<schedVars, authVars, gitVars, now, rndMaster, rndFile, session, encDir, masterFile, accessLog,
                 activeSessions, sessionKeyFile, kmVars, obsVars>>

----------------------------------------------------------------------------
(* EncryptedFileRepository: findAll and delete *)

\* file.replace('.json.encrypted', '').replace('.json', '') on the name of an
\* entity file, <id>.json or <id>.json.encrypted
idOfFile(file) ==
  LET name == IF endsWithJsonEncrypted(file) THEN SubSeq(file, 1, Len(file) - 2) ELSE file
  IN  replace(name, ".json")[1]

\* findAll: files is what fs.readdir returned; an entity is pushed for each
\* listed name that findById resolves
RECURSIVE findEach(_, _, _)
findEach(w, files, entities) ==
  IF failed(w) THEN w
  ELSE IF Len(files) = 0 THEN [w EXCEPT !.ret = entities]
  ELSE LET file == basename(Head(files))
           w1 == findById(w, idOfFile(file))
       IN  IF endsWith(file, ".json") \/ endsWithJsonEncrypted(file)
           THEN findEach(w1, Tail(files),
                         IF failed(w1) \/ w1.ret = Null THEN entities
                         ELSE Append(entities, w1.ret))
           ELSE findEach(w, Tail(files), entities)

findAll(w, files) == findEach(w, files, <<>>)

\* delete: each file is removed before addToTransaction is called
delete_(w, id) ==
  LET entityPath == getEntityPath(id)
      encryptedPath == entityPath \o <<ENC>>
      w1 == IF encryptedPath \in DOMAIN w.fs
            THEN addToTransaction([w EXCEPT !.fs = remove(@, encryptedPath)], encryptedPath)
            ELSE w
  IN  IF failed(w1) THEN w1
      ELSE IF entityPath \in DOMAIN w1.fs
      THEN addToTransaction([w1 EXCEPT !.fs = remove(@, entityPath)], entityPath)
      ELSE w1

\* one pass of findAll decrypts every listed envelope
FindAll ==
  \E files \in Listings(readdir(fs, getEntityDirectory)) :
    \E w \in {findAll(RepoState, files)} :
      w.accessLog <= MaxFindLog /\ RepoCall("findAll", files, w)

Delete(id) ==
  \E w \in {delete_(RepoState, id)} : RepoCall("delete", <<id>>, w)

----------------------------------------------------------------------------
(* EncryptionCommands: the encrypt-file command.  A directory exists while *)
(* it holds a file; its path is the one-element path of its name.          *)

isDirectory(files, filePath) == Len(filePath) = 1 /\ readdir(files, filePath[1]) # {}

\* try { encryptDirectory | encryptFile; commitTransaction } catch { rollbackTransaction; throw }
encryptBody(w, filePath, items, organizationId, classification, corporateLevel, recursive, gitOk) ==
  LET encrypted ==
        IF isDirectory(w.fs, filePath)
        THEN IF recursive
             THEN encryptDirectory(w, items, organizationId, classification, corporateLevel)
             ELSE throw(w, "Use --recursive flag to encrypt directories")
        ELSE encryptFileOn(w, filePath, organizationId, classification, corporateLevel)
      body == commitTransaction(encrypted, gitOk)
  IN  IF failed(body) THEN throw(rollbackTransaction(caught(body)), body.err) ELSE body

\* getCurrentSession throws without a session and fs.stat rejects a missing
\* path; both happen before startTransaction
encryptFileCommand(w, filePath, items, organizationId, classification, corporateLevel, recursive, gitOk) ==
  IF ~HasSession THEN throw(w, "NoSession")
  ELSE IF filePath \notin DOMAIN w.fs /\ ~isDirectory(w.fs, filePath) THEN throw(w, "ENOENT")
  ELSE encryptBody(startTransaction(w), filePath, items, organizationId, classification,
                   corporateLevel, recursive, gitOk)

EncryptFileCommand(filePath, organizationId, recursive, gitOk) ==
  \E items \in Listings(readdirAll(fs, getEntityDirectory)) :
    \E w \in {encryptFileCommand(RepoState, filePath, items, organizationId,
                                 encryptedOptions.classification,
                                 encryptedOptions.corporateLevel, recursive, gitOk)} :
      withinBounds(w) /\ RepoCall("encryptFileCommand", filePath, w)

----------------------------------------------------------------------------
(* AuthenticationService: registration.  users.json exists and holds the   *)
(* users array (initialize); a login is one with the right password.       *)

Emails == {"a@x", "b@x"}
NoRole == ""

getSystemPermissions(systemRole) ==
  [canRegisterUsers |-> systemRole \in {SYSTEM_OWNER, SYSTEM_ADMIN}]

isFirstUser(users) == Len(users) = 0

\* `user-${Date.now()}`
generateUserId(t) ==
  <<"user-0", "user-1", "user-2", "user-3", "user-4", "user-5", "user-6", "user-7",
    "user-8", "user-9">>[t + 1]

createUser(st, email, systemRole) ==
  IF failed(st) THEN st
  ELSE IF \E i \in 1..Len(st.usersFile) : st.usersFile[i].email = email
  THEN throw(st, "User with this email already exists")
  ELSE LET newUser == [id |-> generateUserId(now), email |-> email, systemRole |-> systemRole]
       IN  [st EXCEPT !.usersFile = Append(@, newUser), !.ret = newUser]

\* userData.systemRole may be absent (NoRole)
register(st, userData) ==
  LET isFirst == isFirstUser(st.usersFile)
  IN  IF ~isFirst /\ (~HasSession \/ ~getSystemPermissions(session.systemRole).canRegisterUsers)
      THEN throw(st, "You must be logged in with appropriate permissions to register new users.")
      ELSE createUser(st, userData.email,
                      IF isFirst THEN SYSTEM_OWNER
                      ELSE IF userData.systemRole # NoRole THEN userData.systemRole
                      ELSE SYSTEM_MEMBER)

Register(userData) ==
  \E st \in {register([usersFile |-> usersFile, err |-> "", ret |-> <<>>], userData)} :
    /\ usersFile' = st.usersFile
    /\ result' = ResKM("register", IF failed(st) THEN st.err ELSE "ok", userData, usersFile)
    /\ UNCHANGED <<schedVars, gitVars, now, rndMaster, rndFile, session, encDir, masterFile,
                   cryptoVars, kmVars, obsVars>>

\* authenticate() of a registered user
LoginAs(i) ==
  /\ i \in 1..Len(usersFile)
  /\ session' = [id |-> usersFile[i].id, systemRole |-> usersFile[i].systemRole,
                 organizationMemberships |-> <<>>]
  /\ result' = Idle
  /\ UNCHANGED <<schedVars, authVars, gitVars, now, rndMaster, rndFile, encDir, masterFile, cryptoVars,
                 kmVars, obsVars>>

----------------------------------------------------------------------------
(* Specifications *)

Init ==
  /\ now = 0
  /\ rndMaster = 0
  /\ rndFile = 0
  /\ session = NoSession
  /\ encDir = FALSE
  /\ masterFile = 0
  /\ fs = EmptyMap
  /\ accessLog = 0
  /\ activeSessions = EmptyMap
  /\ sessionKeyFile = NoFile
  /\ keyHierarchy = NewKeyHierarchy
  /\ keyHierarchyFile = NoHierarchyFile
  /\ keyRotationSchedules = EmptyMap
  /\ rotationScheduleFile = EmptyMap
  /\ rotationLog = 0
  /\ result = Idle
  /\ encryptedUnder = EmptyMap
  /\ transactionActive = FALSE
  /\ transactionFiles = <<>>
  /\ usersFile = <<>>
  /\ lastCheck = 0

\* CryptoService under one master key
Next ==
  \/ CryptoInitialize
  \/ \E u \in Users : Login(u)
  \/ Logout
  \/ \E n \in FileNames, b \in Contents : WriteFile(n, b)
  \/ \E n \in FileNames, c \in Contexts : encryptFile(n, c[1], c[2], c[3])
  \/ \E n \in FileNames, o \in OutputPaths : decryptFile(n \o <<ENC>>, o)
  \/ HasSession /\ startDecryptionSession(session.id)
  \/ HasSession /\ endDecryptionSession(session.id)
  \/ NewCryptoService
  \/ \E n \in FileNames, f \in {"authTag", "iv", "data"} : Tamper(n \o <<ENC>>, f)
  \/ \E d \in TickSteps : Tick(d)

Spec == Init /\ [][Next]_vars

\* CryptoService while KeyManager rotates the master key
NextRotate ==
  \/ CryptoInitialize
  \/ \E u \in Users : Login(u)
  \/ Logout
  \/ \E n \in FileNames, b \in Contents : WriteFile(n, b)
  \/ \E n \in FileNames, c \in Contexts : encryptFile(n, c[1], c[2], c[3])
  \/ \E n \in FileNames, o \in OutputPaths : decryptFile(n \o <<ENC>>, o)
  \/ HasSession /\ startDecryptionSession(session.id)
  \/ HasSession /\ endDecryptionSession(session.id)
  \/ NewCryptoService
  \/ RotateMasterKey

SpecRotate == Init /\ [][NextRotate]_vars

\* KeyManager: the hierarchy under derivations and rotations
KeyOrgs == {"org-1", "org-2"}
\* the user who runs the key commands, and the session keys asked for
KeyOperators == {"alice"}
KeyRequests == {<<"alice", "org-1">>, <<"alice", NoOrg>>,
                <<"bob", "org-1">>, <<"bob", "org-2">>}

NextKeys ==
  \/ KMInitialize
  \/ NewKeyManager
  \/ \E u \in KeyOperators : Login(u)
  \/ \E o \in KeyOrgs : DeriveCorporateKey(o, UNCLASSIFIED, "MEMBER")
  \/ \E x \in KeyRequests : DeriveUserSessionKey(x[1], x[2], UNCLASSIFIED, "MEMBER")
  \/ \E o \in KeyOrgs : RotateOrganizationKeys(o)
  \/ \E u \in Users : RotateUserSessionKeys(u)
  \/ RotateMasterKey

SpecKeys == Init /\ [][NextKeys]_vars

\* CryptoService: one user's decryption session as the clock advances
SessionUsers == Users
SessionContexts == {<<"org-1", UNCLASSIFIED, "MEMBER">>}
SessionTickSteps == {1, SESSION_DURATION}

NextSession ==
  \/ CryptoInitialize
  \/ \E u \in SessionUsers : Login(u)
  \/ \E n \in FileNames, b \in Contents : WriteFile(n, b)
  \/ \E n \in FileNames, c \in SessionContexts : encryptFile(n, c[1], c[2], c[3])
  \/ \E n \in FileNames : decryptFile(n \o <<ENC>>, NoPath)
  \/ HasSession /\ startDecryptionSession(session.id)
  \/ HasSession /\ endDecryptionSession(session.id)
  \/ \E d \in SessionTickSteps : Tick(d)

SpecSession == Init /\ [][NextSession]_vars

\* KeyManager: derivations across instances, without rotation
DeriveClassifications == {UNCLASSIFIED, "SECRET"}

NextDerive ==
  \/ KMInitialize
  \/ NewKeyManager
  \/ \E o \in KeyOrgs : DeriveOrganizationKey(o)
  \/ \E o \in KeyOrgs, c \in DeriveClassifications : DeriveClassificationKey(o, c)
  \/ \E o \in KeyOrgs : DeriveCorporateKey(o, UNCLASSIFIED, "MEMBER")

SpecDerive == Init /\ [][NextDerive]_vars

\* GitService alone
NextGit ==
  \/ StartTransaction
  \/ \E filePath \in GitPaths : AddToTransaction(filePath)
  \/ \E gitOk \in BOOLEAN : CommitTransaction(gitOk)
  \/ RollbackTransaction

SpecGit == Init /\ [][NextGit]_vars

\* EncryptedFileRepository: one entity, created, read and updated
RepoUsers == {"alice"}
EntityIds == {"e1"}
EntityData == {[data |-> "d1"]}
Changes == {[data |-> "d2"], [id |-> "e9", version |-> <<9, 9, 9>>]}
PlainEntities == {[id |-> "e1", version |-> <<1, 0>>, data |-> "d0"]}

NextRepo ==
  \/ CryptoInitialize
  \/ \E u \in RepoUsers : Login(u)
  \/ StartTransaction
  \/ \E entity \in PlainEntities : PutEntity(entity)
  \/ \E id \in EntityIds, entityData \in EntityData : Create(id, entityData)
  \/ \E id \in EntityIds : FindById(id)
  \/ \E id \in EntityIds, updateData \in Changes : Update(id, updateData)
  \/ HasSession /\ startDecryptionSession(session.id)
  \/ HasSession /\ endDecryptionSession(session.id)

SpecRepo == Init /\ [][NextRepo]_vars

\* the bulk operations on a directory of three files: an entity, a file named
\* like an encrypted entity that is no envelope, and a .json file that cannot
\* be read
BulkUsers == {"alice"}
BulkFiles ==
  (getEntityPath("e1") :> Plain(stringify([id |-> "e1", version |-> <<1, 0, 0>>,
                                           data |-> "d1"])))
  @@ (getEntityPath("e2") \o <<ENC>> :> Plain(NotJSON))
  @@ (getEntityPath("e3") :> Unreadable)

NextBulk ==
  \/ CryptoInitialize
  \/ \E u \in BulkUsers : Login(u)
  \/ StartTransaction
  \/ \E name \in DOMAIN BulkFiles : PutFile(name, BulkFiles[name])
  \/ EncryptDirectory
  \/ DecryptDirectory
  \/ EncryptAllFiles
  \/ DecryptAllFiles
  \/ MigrateToEncryption

SpecBulk == Init /\ [][NextBulk]_vars

\* the encrypt-file command on a directory of two files
CommandPaths == {getEntityPath("e1"), getEntityPath("e3"), <<getEntityDirectory>>}
CommandFiles ==
  (getEntityPath("e1") :> Plain(stringify([id |-> "e1", version |-> <<1, 0, 0>>,
                                           data |-> "d1"])))
  @@ (getEntityPath("e3") :> Unreadable)

NextCommand ==
  \/ CryptoInitialize
  \/ \E u \in BulkUsers : Login(u)
  \/ Logout
  \/ StartTransaction
  \/ RollbackTransaction
  \/ \E name \in DOMAIN CommandFiles : PutFile(name, CommandFiles[name])
  \/ \E filePath \in CommandPaths, organizationId \in {NoOrg, encryptedOptions.organizationId},
        recursive \in BOOLEAN, gitOk \in BOOLEAN :
       EncryptFileCommand(filePath, organizationId, recursive, gitOk)

SpecCommand == Init /\ [][NextCommand]_vars

\* registration and login
RegistrationData == [email : Emails, systemRole : SystemRole \cup {NoRole}]

NextAuth ==
  \/ \E userData \in RegistrationData : Register(userData)
  \/ \E i \in 1..Cardinality(Emails) : LoginAs(i)
  \/ Logout
  \/ \E d \in {1} : Tick(d)

SpecAuth == Init /\ [][NextAuth]_vars

\* KeyManager across restarts, the process dying in a master rotation
RestartOrgs == {"org-1"}

NextRestart ==
  \/ KMInitialize
  \/ NewKeyManager
  \/ \E u \in KeyOperators : Login(u)
  \/ \E o \in RestartOrgs : DeriveCorporateKey(o, UNCLASSIFIED, "MEMBER")
  \/ \E o \in RestartOrgs : RotateOrganizationKeys(o)
  \/ RotateMasterKey
  \/ RotateMasterKeyCrash

SpecRestart == Init /\ [][NextRestart]_vars

\* KeyManager: the scheduled rotations as the clock advances, with entries of
\* rotation-schedule.json set by hand
ScheduleUsers == {"alice"}
ScheduleOrgs == {"org-1"}
ScheduleSteps == {KEY_ROTATION_INTERVAL \div 2}
ScheduleEdits ==
  {<<<<"org", "org-1">>,
     [keyType |-> "organization", lastRotated |-> 0,
      nextRotation |-> KEY_ROTATION_INTERVAL \div 2,
      rotationInterval |-> KEY_ROTATION_INTERVAL \div 2, autoRotate |-> TRUE]>>,
   <<<<"user", "alice">>,
     [keyType |-> "user", lastRotated |-> 0,
      nextRotation |-> KEY_ROTATION_INTERVAL \div 2,
      rotationInterval |-> KEY_ROTATION_INTERVAL, autoRotate |-> FALSE]>>}
Failures == {{}, {<<"org", "org-1">>}, {<<"user", "alice">>}}

NextSchedule ==
  \/ KMInitialize
  \/ NewKeyManager
  \/ \E u \in ScheduleUsers : Login(u)
  \/ \E u \in ScheduleUsers, o \in ScheduleOrgs :
       DeriveUserSessionKey(u, o, UNCLASSIFIED, "MEMBER")
  \/ \E e \in ScheduleEdits : EditSchedule(e[1], e[2])
  \/ \E failing \in Failures : CheckAndPerformScheduledRotations(failing)
  \/ \E d \in ScheduleSteps : Elapse(d)

SpecSchedule == Init /\ [][NextSchedule]_vars

\* KeyManager: one user's session keys under scheduled rotation passes that
\* return at least once per CheckPeriod
PeriodicRequests ==
  {<<"alice", NoOrg, UNCLASSIFIED, "MEMBER">>,
   <<"alice", NoOrg, UNCLASSIFIED, "MANAGER">>,
   <<"alice", "org-1", UNCLASSIFIED, "MEMBER">>}

NextPeriodic ==
  \/ KMInitialize
  \/ \E u \in ScheduleUsers : Login(u)
  \/ \E x \in PeriodicRequests : DeriveUserSessionKey(x[1], x[2], x[3], x[4])
  \/ CheckAndPerformScheduledRotations({})
  \/ \E d \in ScheduleSteps : Elapse(d)

SpecPeriodic == Init /\ [][NextPeriodic]_vars

\* encryptDirectory on a tree: a file and a dotfile at the top, a file in a
\* subdirectory, in a dot-directory and in node_modules
TreeFiles ==
  {<<getEntityDirectory, "a", ".txt">>,
   <<getEntityDirectory, ".env">>,
   <<"organizations/org-1/projects/sub/", "b", ".txt">>,
   <<"organizations/org-1/projects/.git/", "config">>,
   <<"organizations/org-1/projects/node_modules/", "m", ".js">>}

NextTree ==
  \/ CryptoInitialize
  \/ \E u \in BulkUsers : Login(u)
  \/ \E name \in TreeFiles : PutFile(name, Plain(stringify([data |-> "d1"])))
  \/ EncryptDirectory

SpecTree == Init /\ [][NextTree]_vars

\* EncryptedFileRepository: entities created, listed and deleted
NextFindAll ==
  \/ CryptoInitialize
  \/ \E u \in RepoUsers : Login(u)
  \/ StartTransaction
  \/ \E id \in EntityIds, entityData \in EntityData : Create(id, entityData)
  \/ \E id \in EntityIds : FindById(id)
  \/ FindAll
  \/ \E id \in EntityIds, updateData \in Changes : Update(id, updateData)
  \/ \E id \in EntityIds : Delete(id)

SpecFindAll == Init /\ [][NextFindAll]_vars

----------------------------------------------------------------------------
(* The two access checks as functions of the session and their arguments *)

AccessOrgs == {"org-1", "org-2"}
AccessClassifications == {UNCLASSIFIED, "SECRET"}

Membership(o, l) == [organizationId |-> o, corporateLevel |-> l, status |-> "ACTIVE"]

\* the membership lists authenticate() can put in a session: ACTIVE entries, at
\* most one for an organization
AccessMemberships ==
  {<<>>}
  \cup {<<Membership("org-1", l)>> : l \in CorporateLevel}
  \cup {<<Membership("org-2", "CEO"), Membership("org-1", l)>> : l \in CorporateLevel}

AccessSessions ==
  {NoSession}
  \cup {[id |-> u, systemRole |-> r, organizationMemberships |-> m] :
          u \in Users, r \in SystemRole, m \in AccessMemberships}

AccessMetadata ==
  [encryptedBy : Users, organizationId : AccessOrgs \cup {NoOrg},
   classification : AccessClassifications, corporateLevel : CorporateLevel]

AccessArguments ==
  [userId : Users, organizationId : AccessOrgs \cup {NoOrg},
   classification : AccessClassifications, corporateLevel : CorporateLevel]

Decision(b) == IF b THEN "true" ELSE "false"

AccessFile == <<"a", ".json">>
AccessBytes == Plain("f1")

\* The repository after initialize() and one encryptFile(AccessFile, ...) by
\* metadata.encryptedBy with no decryption session open
AfterEncryptFile(metadata) ==
  /\ now = 0
  /\ rndMaster = 1
  /\ rndFile = 1
  /\ encDir = TRUE
  /\ masterFile = 1
  /\ fs = put(EmptyMap, AccessFile \o <<ENC>>,
              encryptedFile(deriveFileKey(EmptyMap, 1, metadata.encryptedBy,
                                          metadata.organizationId,
                                          metadata.classification,
                                          metadata.corporateLevel, 1).key,
                            metadata.encryptedBy, metadata.organizationId,
                            metadata.classification, metadata.corporateLevel,
                            AccessFile, AccessBytes, 1, 1))
  /\ accessLog = 0
  /\ activeSessions = EmptyMap
  /\ sessionKeyFile = NoFile
  /\ keyHierarchy = NewKeyHierarchy
  /\ keyHierarchyFile = NoHierarchyFile
  /\ keyRotationSchedules = EmptyMap
  /\ rotationScheduleFile = EmptyMap
  /\ rotationLog = 0
  /\ result = Idle
  /\ encryptedUnder = put(EmptyMap, AccessFile \o <<ENC>>, 1)
  /\ transactionActive = FALSE
  /\ transactionFiles = <<>>
  /\ usersFile = <<>>
  /\ lastCheck = 0

\* decryptFile of one encrypted file, for each file context and each session
InitAccess ==
  /\ session \in AccessSessions
  /\ \E metadata \in AccessMetadata : AfterEncryptFile(metadata)

NextAccess == decryptFile(AccessFile \o <<ENC>>, NoPath)

SpecAccess == InitAccess /\ [][NextAccess]_vars

ValidateUserKeyAccess(a) ==
  /\ result' = ResKM("validateUserKeyAccess",
                     Decision(validateUserKeyAccess(a.userId, a.organizationId,
                                                    a.classification,
                                                    a.corporateLevel, session)),
                     NoPath, a)
  /\ UNCHANGED <<schedVars, authVars, gitVars, now, rndMaster, rndFile, session, encDir, masterFile,
                 cryptoVars, kmVars, obsVars>>

\* validateUserKeyAccess for each session and each argument list
InitValidate ==
  /\ now = 0
  /\ rndMaster = 0
  /\ rndFile = 0
  /\ session \in AccessSessions
  /\ encDir = FALSE
  /\ masterFile = 0
  /\ fs = EmptyMap
  /\ accessLog = 0
  /\ activeSessions = EmptyMap
  /\ sessionKeyFile = NoFile
  /\ keyHierarchy = NewKeyHierarchy
  /\ keyHierarchyFile = NoHierarchyFile
  /\ keyRotationSchedules = EmptyMap
  /\ rotationScheduleFile = EmptyMap
  /\ rotationLog = 0
  /\ result = Idle
  /\ encryptedUnder = EmptyMap
  /\ transactionActive = FALSE
  /\ transactionFiles = <<>>
  /\ usersFile = <<>>
  /\ lastCheck = 0

NextValidate == \E a \in AccessArguments : ValidateUserKeyAccess(a)

SpecValidate == InitValidate /\ [][NextValidate]_vars

\* decryptEntityFile of a file with the given metadata: validateUserKeyAccess
\* decides first, canDecryptFile (in decryptFile) second
AccessChecks(metadata) ==
  /\ result' = ResKM("accessChecks",
                     Decision(validateUserKeyAccess(session.id, metadata.organizationId,
                                                    metadata.classification,
                                                    metadata.corporateLevel, session)),
                     NoPath, metadata)
                 @@ [canDecryptFile |-> Decision(canDecryptFile(metadata, session.id, session))]
  /\ UNCHANGED <<schedVars, authVars, gitVars, now, rndMaster, rndFile, session, encDir,
                 masterFile, cryptoVars, kmVars, obsVars>>

\* both checks for each session and each file metadata
NextAgree == \E metadata \in AccessMetadata : HasSession /\ AccessChecks(metadata)

SpecAgree == InitValidate /\ [][NextAgree]_vars

----------------------------------------------------------------------------
(* Properties of CryptoService *)

\* the step is a call decryptFile(p) on an envelope, made with a session
DecryptsEnvelope(p) ==
  /\ result'.op = "decryptFile"
  /\ result'.path = p
  /\ HasSession
  /\ p \in DOMAIN fs
  /\ IsEnvelope(fs[p])

\* C1: decryptFile of an envelope that encryptFile wrote, by the user who
\* encrypted it, under the same master key and file name, succeeds and writes the
\* bytes that were encrypted, whatever other CryptoService calls were made.
C1_RoundTrip ==
  [][\A p \in DOMAIN fs :
       (/\ DecryptsEnvelope(p)
        /\ fs[p].metadata.encryptedBy = session.id
        /\ ~Tampered(fs[p])
        /\ encryptedUnder[p] = masterFile)
       => (/\ result'.status = "ok"
           /\ fs'[finalPath(p, NoPath)] = fs[p].data.pt)]_vars

\* C2: decryptFile of an envelope whose authentication tag, iv or ciphertext was
\* changed fails with a decryption error and writes nothing.
C2_TamperFailsClosed ==
  [][\A p \in DOMAIN fs :
       (/\ DecryptsEnvelope(p)
        /\ canDecryptFile(fs[p].metadata, session.id, session)
        /\ Tampered(fs[p]))
       => (result'.status = "DecryptionFailed" /\ fs' = fs)]_vars

\* the permission rule of decryptFile as the specification words it
RankOf(level) == CHOOSE i \in 1..Len(corporateHierarchy) : corporateHierarchy[i] = level
ClearedFor(s, classification) ==
  s.systemRole = SYSTEM_OWNER \/ classification = UNCLASSIFIED
MayDecrypt(metadata, s) ==
  \/ s.systemRole = SYSTEM_OWNER
  \/ s.id = metadata.encryptedBy
  \/ /\ metadata.organizationId # NoOrg
     /\ \E i \in 1..Len(s.organizationMemberships) :
          /\ s.organizationMemberships[i].organizationId = metadata.organizationId
          /\ s.organizationMemberships[i].status = "ACTIVE"
          /\ ClearedFor(s, metadata.classification)
          /\ RankOf(s.organizationMemberships[i].corporateLevel)
               >= RankOf(metadata.corporateLevel)

\* C3: when the session may not decrypt the file, decryptFile throws the
\* permission error and changes neither the files, the access log, the decryption
\* sessions (no key is derived or cached) nor the session file.
C3_AuthorizationFirst ==
  [][\A p \in DOMAIN fs :
       (DecryptsEnvelope(p) /\ ~MayDecrypt(fs[p].metadata, session))
       => (result'.status = "AccessDenied" /\ UNCHANGED cryptoVars)]_vars

\* a denied call was made while the owner of the file had a decryption session
C3_Witness ==
  /\ result.op = "decryptFile"
  /\ result.status = "AccessDenied"
  /\ result.path \in DOMAIN fs
  /\ fs[result.path].metadata.encryptedBy \in DOMAIN activeSessions
  /\ fs[result.path].metadata.encryptedBy # session.id

\* C10: once the master key was rotated, decryptFile of a file encrypted before
\* the rotation fails and writes nothing, whatever decryption sessions exist.
C10_RotationLocksOldFiles ==
  [][\A p \in DOMAIN fs :
       (DecryptsEnvelope(p) /\ encryptedUnder[p] # masterFile)
       => (result'.status \in {"AccessDenied", "DecryptionFailed"} /\ fs' = fs)]_vars

----------------------------------------------------------------------------
(* Properties of KeyManager.validateUserKeyAccess *)

Granted == result.op = "validateUserKeyAccess" /\ result.status = "true"

\* the organization conditions of a grant: ACTIVE membership, classification
\* allowed by the system role, level at or above the required one
OrganizationAllows(s, a) ==
  \E i \in 1..Len(s.organizationMemberships) :
    /\ s.organizationMemberships[i].organizationId = a.organizationId
    /\ s.organizationMemberships[i].status = "ACTIVE"
    /\ ClearedFor(s, a.classification)
    /\ RankOf(s.organizationMemberships[i].corporateLevel) >= RankOf(a.corporateLevel)

\* C5 as stated: validateUserKeyAccess returns true only with a valid session
\* whose user id equals userId and, when an organization is given, an ACTIVE
\* membership, an allowed classification and a sufficient level.
C5_OnlySessionUser ==
  Granted =>
    /\ HasSession
    /\ session.id = result.before.userId
    /\ result.before.organizationId # NoOrg => OrganizationAllows(session, result.before)

\* C5: validateUserKeyAccess returns true only with a valid session whose user id
\* equals userId or whose system role is system owner and, when an organization is
\* given, an ACTIVE membership, an allowed classification and a sufficient level;
\* with no valid session it returns false.
C5_OnlySessionUserOrOwner ==
  Granted =>
    /\ HasSession
    /\ session.id = result.before.userId \/ session.systemRole = SYSTEM_OWNER
    /\ result.before.organizationId # NoOrg => OrganizationAllows(session, result.before)

\* a system owner was granted access to another user's keys in an organization
C5_Witness ==
  /\ Granted
  /\ session.systemRole = SYSTEM_OWNER
  /\ session.id # result.before.userId
  /\ result.before.organizationId = "org-1"
  /\ result.before.classification = "SECRET"

\* C6: when validateUserKeyAccess grants access at membership level B, it grants
\* the same request at every membership level A that ranks above B.
C6_AccessMonotone ==
  Granted =>
    \A i \in 1..Len(session.organizationMemberships) :
      session.organizationMemberships[i].organizationId = result.before.organizationId =>
        \A A \in CorporateLevel :
          RankOf(A) > RankOf(session.organizationMemberships[i].corporateLevel) =>
            validateUserKeyAccess(
              result.before.userId, result.before.organizationId,
              result.before.classification, result.before.corporateLevel,
              [session EXCEPT !.organizationMemberships[i].corporateLevel = A])

\* access was granted at exactly the required level, below the top of the list
C6_Witness ==
  /\ Granted
  /\ session.systemRole # SYSTEM_OWNER
  /\ result.before.organizationId = "org-1"
  /\ result.before.corporateLevel = "MANAGER"
  /\ \E i \in 1..Len(session.organizationMemberships) :
       /\ session.organizationMemberships[i].organizationId = "org-1"
       /\ session.organizationMemberships[i].corporateLevel = "MANAGER"

----------------------------------------------------------------------------
(* Properties of the key rotations *)

\* the step is a call op(arg) of the KeyManager that returned
Returned(op, arg) ==
  /\ result'.op = op
  /\ result'.path = arg
  /\ result'.status = "ok"

\* key-hierarchy.json holds, in hex, exactly the keys of the hierarchy kh
FileHolds(file, kh) ==
  /\ file.exists
  /\ DOMAIN file.systemKeys = DOMAIN kh.systemKeys
  /\ \A r \in DOMAIN kh.systemKeys : fromHex(file.systemKeys[r]) = kh.systemKeys[r]
  /\ DOMAIN file.organizationKeys = DOMAIN kh.organizationKeys
  /\ \A o \in DOMAIN kh.organizationKeys :
       fromHex(file.organizationKeys[o]) = kh.organizationKeys[o]
  /\ DOMAIN file.classificationKeys = DOMAIN kh.classificationKeys
  /\ \A o \in DOMAIN kh.classificationKeys :
       /\ DOMAIN file.classificationKeys[o] = DOMAIN kh.classificationKeys[o]
       /\ \A c \in DOMAIN kh.classificationKeys[o] :
            fromHex(file.classificationKeys[o][c]) = kh.classificationKeys[o][c]
  /\ DOMAIN file.corporateKeys = DOMAIN kh.corporateKeys
  /\ \A o \in DOMAIN kh.corporateKeys :
       /\ DOMAIN file.corporateKeys[o] = DOMAIN kh.corporateKeys[o]
       /\ \A c \in DOMAIN kh.corporateKeys[o] :
            fromHex(file.corporateKeys[o][c]) = kh.corporateKeys[o][c]
  /\ DOMAIN file.userSessionKeys = DOMAIN kh.userSessionKeys
  /\ \A k \in DOMAIN kh.userSessionKeys :
       fromHex(file.userSessionKeys[k]) = kh.userSessionKeys[k]

\* no classification, corporate or user-session key of organization o in h
\* (h: the hierarchy in memory or the file)
NoKeyScopedTo(h, o) ==
  /\ o \notin DOMAIN h.classificationKeys
  /\ o \notin DOMAIN h.corporateKeys
  /\ \A k \in DOMAIN h.userSessionKeys : k[2] # o

\* C7: once rotateOrganizationKeys(o) has returned, neither the hierarchy in
\* memory nor the persisted file holds a classification, corporate or user-session
\* key scoped to o; the organization key of o is present, derived anew.
C7_RotationInvalidates ==
  [][\A o \in KeyOrgs :
       Returned("rotateOrganizationKeys", <<o>>) =>
         /\ NoKeyScopedTo(keyHierarchy', o)
         /\ NoKeyScopedTo(keyHierarchyFile', o)
         /\ o \in DOMAIN keyHierarchy'.organizationKeys
         /\ keyHierarchy'.organizationKeys[o]
              = pbkdf2(keyHierarchy'.masterKey, Label("org", o, 0))
         /\ o \in DOMAIN keyHierarchyFile'.organizationKeys
         /\ fromHex(keyHierarchyFile'.organizationKeys[o])
              = keyHierarchy'.organizationKeys[o]]_vars

\* org-1 was rotated while it had corporate and user-session keys cached, and
\* a session key of another scope is still cached
C7_Witness ==
  /\ result.op = "rotateOrganizationKeys"
  /\ result.status = "ok"
  /\ result.path = <<"org-1">>
  /\ "org-1" \in DOMAIN result.before.corporateKeys
  /\ \E k \in DOMAIN result.before.userSessionKeys : k[2] = "org-1"
  /\ keyHierarchy.userSessionKeys # EmptyMap

\* C8: rotateUserSessionKeys(u) removes from the user-session keys exactly the
\* entries whose id begins with u and changes no other key of the hierarchy.
C8_RemovesExactlyUsersKeys ==
  [][\A u \in Users :
       (result'.op = "rotateUserSessionKeys" /\ result'.path = <<u>>) =>
         /\ DOMAIN keyHierarchy'.userSessionKeys
              = {k \in DOMAIN keyHierarchy.userSessionKeys : k[1] # u}
         /\ \A k \in DOMAIN keyHierarchy'.userSessionKeys :
              keyHierarchy'.userSessionKeys[k] = keyHierarchy.userSessionKeys[k]
         /\ keyHierarchy'.masterKey = keyHierarchy.masterKey
         /\ keyHierarchy'.systemKeys = keyHierarchy.systemKeys
         /\ keyHierarchy'.organizationKeys = keyHierarchy.organizationKeys
         /\ keyHierarchy'.classificationKeys = keyHierarchy.classificationKeys
         /\ keyHierarchy'.corporateKeys = keyHierarchy.corporateKeys]_vars

\* bob's session keys were rotated away while alice's stayed
C8_Witness ==
  /\ result.op = "rotateUserSessionKeys"
  /\ result.status = "ok"
  /\ result.path = <<"bob">>
  /\ \E k \in DOMAIN result.before.userSessionKeys : k[1] = "bob"
  /\ \E k \in DOMAIN keyHierarchy.userSessionKeys : k[1] = "alice"

\* C9: once rotateMasterKey() has returned, the master key is a new value, the
\* organization, classification, corporate and user-session keys are gone, the
\* system keys are those of the three system roles derived from the new master
\* key, and the persisted file holds what is in memory.
C9_MasterRotationResets ==
  [][Returned("rotateMasterKey", NoPath) =>
       /\ masterFile' # masterFile
       /\ keyHierarchy'.masterKey = Key(masterFile')
       /\ keyHierarchy'.masterKey # keyHierarchy.masterKey
       /\ keyHierarchy'.organizationKeys = EmptyMap
       /\ keyHierarchy'.classificationKeys = EmptyMap
       /\ keyHierarchy'.corporateKeys = EmptyMap
       /\ keyHierarchy'.userSessionKeys = EmptyMap
       /\ DOMAIN keyHierarchy'.systemKeys = SystemRole
       /\ \A r \in SystemRole :
            keyHierarchy'.systemKeys[r] = pbkdf2(Key(masterFile'), Label("sys", r, 0))
       /\ FileHolds(keyHierarchyFile', keyHierarchy')]_vars

\* the master key was rotated while organization and session keys were cached
C9_Witness ==
  /\ result.op = "rotateMasterKey"
  /\ result.status = "ok"
  /\ result.before.organizationKeys # EmptyMap
  /\ result.before.userSessionKeys # EmptyMap
  /\ keyHierarchy.organizationKeys = EmptyMap

----------------------------------------------------------------------------
(* Properties of the key derivations *)

\* the keys obtained by deriving from master key m with the fixed labels
SystemKeyOf(m, r) == pbkdf2(Key(m), Label("sys", r, 0))
OrganizationKeyOf(m, o) == pbkdf2(Key(m), Label("org", o, 0))
ClassificationKeyOf(m, o, c) == pbkdf2(OrganizationKeyOf(m, o), Label("class", c, 0))
CorporateKeyOf(m, o, c, l) == pbkdf2(ClassificationKeyOf(m, o, c), Label("corp", l, 0))

\* every cached system, organization, classification and corporate key of kh
\* is its derivation from master key m
Reproducible(kh, m) ==
  /\ \A r \in DOMAIN kh.systemKeys : kh.systemKeys[r] = SystemKeyOf(m, r)
  /\ \A o \in DOMAIN kh.organizationKeys :
       kh.organizationKeys[o] = OrganizationKeyOf(m, o)
  /\ \A o \in DOMAIN kh.classificationKeys :
       \A c \in DOMAIN kh.classificationKeys[o] :
         kh.classificationKeys[o][c] = ClassificationKeyOf(m, o, c)
  /\ \A o \in DOMAIN kh.corporateKeys :
       \A x \in DOMAIN kh.corporateKeys[o] :
         kh.corporateKeys[o][x] = CorporateKeyOf(m, o, x[1], x[2])

\* this instance has loaded master.key
MasterLoaded == masterFile # 0 /\ keyHierarchy.masterKey = Key(masterFile)

\* C11: without rotation, deriveOrganizationKey and deriveClassificationKey
\* return the key they returned before in this instance; once initialize() has
\* loaded the persisted hierarchy they return the derivation from the current
\* master key, and every cached key is its derivation from that master key.
C11_Determinism ==
  [][/\ \A o \in KeyOrgs :
          Returned("deriveOrganizationKey", <<o>>) =>
            /\ o \in DOMAIN keyHierarchy.organizationKeys
                 => result'.ret = keyHierarchy.organizationKeys[o]
            /\ MasterLoaded => result'.ret = OrganizationKeyOf(masterFile, o)
     /\ \A o \in KeyOrgs, c \in DeriveClassifications :
          Returned("deriveClassificationKey", <<o, c>>) =>
            /\ (/\ o \in DOMAIN keyHierarchy.classificationKeys
                /\ c \in DOMAIN keyHierarchy.classificationKeys[o])
                 => result'.ret = keyHierarchy.classificationKeys[o][c]
            /\ MasterLoaded => result'.ret = ClassificationKeyOf(masterFile, o, c)
     /\ Returned("KeyManager.initialize", NoPath)
          => Reproducible(keyHierarchy', masterFile')]_vars

\* the operations of KeyManager other than initialize()
KeyOperations ==
  {"deriveOrganizationKey", "deriveClassificationKey", "deriveCorporateKey",
   "deriveUserSessionKey", "rotateOrganizationKeys", "rotateUserSessionKeys",
   "rotateMasterKey"}

\* C12: a KeyManager operation other than initialize() called while the master
\* key is absent (instance not initialized, or no master.key) fails and leaves
\* the key hierarchy in memory and the persisted hierarchy as they were.
C12_KeyMaterialMissing ==
  [][(/\ result'.op \in KeyOperations
      /\ (keyHierarchy.masterKey = Key(0) \/ masterFile = 0))
       => (/\ result'.status # "ok"
           /\ keyHierarchy' = keyHierarchy
           /\ keyHierarchyFile' = keyHierarchyFile)]_vars

----------------------------------------------------------------------------
(* Properties of the file keys and the decryption sessions *)

\* the step is a call encryptFile(p, ...) that wrote the envelope p.encrypted
Encrypts(p) ==
  /\ result'.op = "encryptFile"
  /\ result'.status = "ok"
  /\ result'.path = p \o <<ENC>>

\* the file key derived from the salt that envelope e records
KeyOfRecordedSalt(e, m) ==
  pbkdf2FileKey(m, e.metadata.encryptedBy, e.metadata.organizationId,
                e.metadata.classification, e.metadata.corporateLevel,
                e.metadata.salt)

SameContext(e1, e2) ==
  /\ e1.metadata.encryptedBy = e2.metadata.encryptedBy
  /\ e1.metadata.organizationId = e2.metadata.organizationId
  /\ e1.metadata.classification = e2.metadata.classification
  /\ e1.metadata.corporateLevel = e2.metadata.corporateLevel

\* C13: encryptFile encrypts under the key derived from the salt it records in
\* the metadata, and never under the key of an envelope written earlier in the
\* same context, with or without a decryption session of the user.
C13_PerFileKeys ==
  [][\A p \in FileNames :
       Encrypts(p) =>
         LET e == fs'[p \o <<ENC>>]
         IN  /\ e.data.key = KeyOfRecordedSalt(e, masterFile)
             /\ \A q \in DOMAIN fs :
                  (IsEnvelope(fs[q]) /\ SameContext(fs[q], e))
                    => fs[q].data.key # e.data.key]_vars

\* the decryption session of user u has expired
Expired(u) == u \in DOMAIN activeSessions /\ activeSessions[u].expiresAt < now

\* the keys in the cache of u's decryption session
CachedKeys(u) ==
  {activeSessions[u].derivedKeys[k] : k \in DOMAIN activeSessions[u].derivedKeys}

\* C14: once the clock has passed expiresAt of a decryption session, encryptFile
\* does not encrypt under a key of that session's cache, and decryptFile
\* succeeds or fails as the key derived from the recorded salt decides.
C14_NoUseAfterExpiry ==
  [][/\ \A p \in FileNames :
          (Encrypts(p) /\ Expired(session.id))
            => fs'[p \o <<ENC>>].data.key \notin CachedKeys(session.id)
     /\ \A p \in DOMAIN fs :
          (/\ DecryptsEnvelope(p)
           /\ Expired(fs[p].metadata.encryptedBy)
           /\ result'.status \in {"ok", "DecryptionFailed"})
            => (result'.status = "ok"
                  <=> fs[p].data.key = KeyOfRecordedSalt(fs[p], masterFile))]_vars

\* C15: startDecryptionSession(u) while u has a session whose expiresAt is in
\* the future changes neither the session (key, expiresAt, derived keys) nor
\* the session file.
C15_StartIsNoOp ==
  [][(/\ result'.op = "startDecryptionSession"
      /\ session.id \in DOMAIN activeSessions
      /\ activeSessions[session.id].expiresAt > now)
       => (/\ activeSessions' = activeSessions
           /\ sessionKeyFile' = sessionKeyFile)]_vars

\* a session that had keys cached was started again later, before it expired
C15_Witness ==
  /\ result.op = "startDecryptionSession"
  /\ result.status = "ok"
  /\ now > 0
  /\ session.id \in DOMAIN activeSessions
  /\ activeSessions[session.id].derivedKeys # EmptyMap
  /\ activeSessions[session.id].expiresAt = SESSION_DURATION

----------------------------------------------------------------------------
(* Properties of EncryptedFileRepository *)

\* the entity is stored under its encrypted path only
StoredEncryptedOnly(files, id) ==
  /\ getEntityPath(id) \o <<ENC>> \in DOMAIN files
  /\ getEntityPath(id) \notin DOMAIN files

\* C16: when findById(id) returns for an entity stored only as
\* <id>.json.encrypted, the entity directory holds the same files as before the
\* call: no plaintext <id>.json is left behind.
C16_FindByIdLeavesNoPlaintext ==
  [][\A id \in EntityIds :
       (result'.op = "findById" /\ result'.path = <<id>> /\ result'.status = "ok"
        /\ StoredEncryptedOnly(fs, id))
       => (DOMAIN fs' = DOMAIN fs /\ getEntityPath(id) \notin DOMAIN fs')]_vars

\* some variant of the entity is stored
Stored(files, id) ==
  getEntityPath(id) \in DOMAIN files \/ getEntityPath(id) \o <<ENC>> \in DOMAIN files

\* the current entity: what the encrypted variant holds, else the plaintext one
CurrentEntity(files, id) ==
  IF getEntityPath(id) \o <<ENC>> \in DOMAIN files
  THEN files[getEntityPath(id) \o <<ENC>>].data.pt.bytes.json
  ELSE files[getEntityPath(id)].bytes.json

\* the patch component of a version
PatchOf(version) == IF Len(version) >= 3 THEN version[3] ELSE 0

\* the fields update sets itself
SetByUpdate == {"id", "updatedAt", "updatedBy", "version"}

\* entity is the merge of current with changes, id kept, patch one higher
IsMergeOf(entity, current, changes, id) ==
  /\ entity.id = id
  /\ entity.version = <<current.version[1], current.version[2], PatchOf(current.version) + 1>>
  /\ \A k \in DOMAIN changes \ SetByUpdate : entity[k] = changes[k]
  /\ \A k \in DOMAIN current \ (DOMAIN changes \cup SetByUpdate) : entity[k] = current[k]

\* the caller is logged in and cleared for the stored variant, a transaction
\* is open and master.key exists
MayUpdate(id) ==
  /\ HasSession
  /\ transactionActive
  /\ masterFile # 0
  /\ getEntityPath(id) \o <<ENC>> \in DOMAIN fs
     => LET metadata == fs[getEntityPath(id) \o <<ENC>>].metadata
        IN  /\ validateUserKeyAccess(session.id, metadata.organizationId,
                                     metadata.classification, metadata.corporateLevel,
                                     session)
            /\ canDecryptFile(metadata, session.id, session)

\* C17: update(id, changes) on an existing entity stores and returns the merge
\* of the current entity with changes, id unchanged and patch number one
\* higher, and leaves the re-encrypted artifact as the only one of the entity;
\* update of an id with no stored variant fails with a not-found error and
\* changes nothing.
C17_UpdateMergesAndReencrypts ==
  [][\A id \in EntityIds, changes \in Changes :
       (result'.op = "update" /\ result'.path = <<id, changes>>)
       => IF Stored(fs, id)
          THEN MayUpdate(id)
               => /\ result'.status = "ok"
                  /\ IsMergeOf(result'.ret, CurrentEntity(fs, id), changes, id)
                  /\ StoredEncryptedOnly(fs', id)
                  /\ \A k \in DOMAIN result'.ret :
                       CurrentEntity(fs', id)[k] = result'.ret[k]
          ELSE /\ result'.status = "NotFound"
               /\ UNCHANGED <<fs, gitVars, activeSessions, accessLog, rndFile>>]_vars

----------------------------------------------------------------------------
(* Properties of the bulk operations *)

\* the unencrypted .json files of the entity directory
UnencryptedFiles(files) ==
  {p \in readdir(files, getEntityDirectory) : endsWith(p, ".json")}

\* the envelope at p \o <<ENC>> holds what the file p held in before
EncryptedFrom(before, after, p) ==
  /\ p \notin DOMAIN after
  /\ p \o <<ENC>> \in DOMAIN after
  /\ IsEnvelope(after[p \o <<ENC>>])
  /\ after[p \o <<ENC>>].data.pt = before[p]

\* C18: migrateToEncryption encrypts each plaintext entity file once: a listed
\* file was plaintext and is replaced by its envelope, no file is listed twice,
\* every entity file that can be encrypted is; and a second run right after the
\* first reports an empty migrated list and leaves every file unchanged.
C18_MigrationIdempotent ==
  [][result'.op = "migrateToEncryption"
     => LET migrated == result'.ret.migrated
        IN  /\ result'.status = "ok"
            /\ \A i \in 1..Len(migrated) :
                 /\ migrated[i] \in UnencryptedFiles(fs)
                 /\ EncryptedFrom(fs, fs', migrated[i])
                 /\ \A j \in 1..Len(migrated) : migrated[i] = migrated[j] => i = j
            /\ \A p \in UnencryptedFiles(fs) :
                 (HasSession /\ masterFile # 0 /\ readsJSON(fs, p))
                 => EncryptedFrom(fs, fs', p)
            /\ result.op = "migrateToEncryption"
               => (migrated = <<>> /\ fs' = fs)]_vars

\* a second run right after a run that migrated a file
C18_Witness ==
  /\ result.op = "migrateToEncryption"
  /\ result.status = "ok"
  /\ result.ret.migrated = <<>>
  /\ result.previous.op = "migrateToEncryption"
  /\ Len(result.previous.ret.migrated) > 0

\* encryptFile of p can succeed: a session, a readable file, a master key
CanEncrypt(p) == HasSession /\ fs[p].kind # "unreadable" /\ masterFile # 0

\* decryptFile of p can succeed: a session allowed to decrypt the envelope,
\* which verifies under the key of its recorded salt, and no cached key
CanDecrypt(p) ==
  /\ HasSession
  /\ masterFile # 0
  /\ IsEnvelope(fs[p])
  /\ canDecryptFile(fs[p].metadata, session.id, session)
  /\ fs[p].metadata.encryptedBy \notin DOMAIN activeSessions
  /\ decipherFinalOk(KeyOfRecordedSalt(fs[p], masterFile),
                     AAD(fs[p].metadata.encryptedBy, fs[p].metadata.organizationId,
                         fs[p].metadata.classification, fs[p].metadata.corporateLevel,
                         replace(basename(p), ENC)),
                     fs[p].data, fs[p].metadata.authTag)

\* the step encrypted p and returned the path of its envelope
EncryptedAndListed(p) ==
  includes(result'.ret, p \o <<ENC>>) /\ EncryptedFrom(fs, fs', p)

\* the step decrypted p and returned the path of the plaintext
DecryptedAndListed(p) ==
  /\ includes(result'.ret, replace(p, ENC))
  /\ replace(p, ENC) \in DOMAIN fs'
  /\ fs'[replace(p, ENC)] = fs[p].data.pt

BulkOperations ==
  {"encryptDirectory", "decryptDirectory", "encryptAllFiles", "decryptAllFiles",
   "migrateToEncryption"}

\* C19: a bulk operation returns normally whatever files fail in it, and
\* processes every eligible file: each file that can be encrypted (decrypted)
\* is, next to files that cannot; migrateToEncryption lists every file it did
\* not migrate in errors.
C19_BulkIsolatesFailures ==
  [][result'.op \in BulkOperations
     => /\ result'.status = "ok"
        /\ result'.op = "encryptDirectory"
           => \A p \in readdir(fs, getEntityDirectory) :
                (~endsWith(p, ENC) /\ CanEncrypt(p)) => EncryptedAndListed(p)
        /\ result'.op = "encryptAllFiles"
           => \A p \in UnencryptedFiles(fs) : CanEncrypt(p) => EncryptedAndListed(p)
        /\ result'.op = "decryptDirectory"
           => \A p \in readdir(fs, getEntityDirectory) :
                (endsWith(p, ENC) /\ CanDecrypt(p)) => DecryptedAndListed(p)
        /\ result'.op = "decryptAllFiles"
           => \A p \in readdir(fs, getEntityDirectory) :
                (endsWithJsonEncrypted(p) /\ CanDecrypt(p)) => DecryptedAndListed(p)
        /\ result'.op = "migrateToEncryption"
           => \A p \in UnencryptedFiles(fs) :
                \/ includes(result'.ret.migrated, p)
                \/ \E i \in 1..Len(result'.ret.errors) : result'.ret.errors[i].file = p]_vars

\* a migration in which one file failed and another was encrypted
C19_Witness ==
  /\ result.op = "migrateToEncryption"
  /\ result.status = "ok"
  /\ Len(result.ret.migrated) > 0
  /\ Len(result.ret.errors) > 0

----------------------------------------------------------------------------
(* Properties of the GitService transaction *)

NoPathTwice(files) == \A i, j \in 1..Len(files) : files[i] = files[j] => i = j

----------------------------------------------------------------------------
(* Properties of the commands *)

\* C21: a command whose transaction ended in rollbackTransaction, because the
\* body or commitTransaction threw, leaves the files on disk as they were
\* before startTransaction: the encrypt-file command either commits the
\* encrypted file or leaves the plaintext in place.
C21_RolledBackCommandRestoresFiles ==
  [][(/\ result'.op = "encryptFileCommand"
      /\ result'.status \notin {"ok", "NoSession", "ENOENT", "Transaction already active"})
     => fs' = fs]_vars

----------------------------------------------------------------------------
(* Properties of AuthenticationService *)

\* C22: the first user registered becomes system.owner and no user registered
\* after the first has the system.owner role; a register call made when
\* users exist succeeds only if the session may register users.
C22_OnlyFirstUserIsOwner ==
  /\ Len(usersFile) > 0 => usersFile[1].systemRole = SYSTEM_OWNER
  /\ \A i \in 2..Len(usersFile) : usersFile[i].systemRole # SYSTEM_OWNER
  /\ (result.op = "register" /\ result.status = "ok" /\ Len(result.before) > 0)
       => (HasSession /\ session.systemRole \in {SYSTEM_OWNER, SYSTEM_ADMIN})

----------------------------------------------------------------------------
(* Properties of KeyManager across restarts and scheduled rotations *)

\* C23: when the process died in rotateMasterKey() after the new master.key
\* was written and before the hierarchy was persisted, initialize() of the
\* next process yields a hierarchy in which every cached system, organization,
\* classification and corporate key is its derivation from the master key in
\* master.key.
C23_CrashRecovery ==
  [][(/\ result.op = "rotateMasterKey"
      /\ result.status = "crashed"
      /\ Returned("KeyManager.initialize", NoPath))
     => Reproducible(keyHierarchy', masterFile')]_vars

\* the entries of the schedules sched that a pass at time t rotates
Due(sched, t) == {k \in DOMAIN sched : sched[k].autoRotate /\ sched[k].nextRotation <= t}

\* a pass of checkAndPerformScheduledRotations was the step
Pass == result'.op = "checkAndPerformScheduledRotations"

\* the pass has rotated and rescheduled entry k
RotatedAndRescheduled(k) ==
  /\ k \in DOMAIN keyRotationSchedules'
  /\ keyRotationSchedules'[k].lastRotated = now
  /\ keyRotationSchedules'[k].nextRotation > now
  /\ keyRotationSchedules[k].keyType = "user"
       => \A id \in DOMAIN keyHierarchy'.userSessionKeys : id[1] # k[2]

\* C24: when the rotation of one due key id throws during a pass of
\* checkAndPerformScheduledRotations, every other due entry with autoRotate
\* is still rotated and rescheduled in that pass.
C24_FailureIsolation ==
  [][(/\ Pass
      /\ HasSession
      /\ \E f \in result'.path[2] : f \in Due(keyRotationSchedules, now))
     => \A k \in Due(keyRotationSchedules, now) \ result'.path[2] :
          RotatedAndRescheduled(k)]_vars

CachedKeysScheduled(kh, sched) ==
  /\ \A o \in DOMAIN kh.organizationKeys : <<"org", o>> \in DOMAIN sched
  /\ \A id \in DOMAIN kh.userSessionKeys : <<"user", id[1]>> \in DOMAIN sched

\* C26: once initialize() has returned, the rotation schedules hold an entry
\* of key type master, and in every state each cached organization key and
\* each user's cached session keys have their schedule entry.
C26_SchedulesFromCreation ==
  [][/\ Returned("KeyManager.initialize", NoPath)
          => \E k \in DOMAIN keyRotationSchedules' :
               keyRotationSchedules'[k].keyType = "master"
     /\ CachedKeysScheduled(keyHierarchy', keyRotationSchedules')]_vars

----------------------------------------------------------------------------
(* Properties of encryptDirectory on a tree *)

\* the file at p was replaced by its envelope
Encrypted(p) == p \notin DOMAIN fs' /\ p \o <<ENC>> \in DOMAIN fs'

\* p lies in a dot-directory or in node_modules
InSkippedDirectory(p) ==
  /\ p[1] \in DOMAIN Subdirectories
  /\ startsWithDot(Subdirectories[p[1]]) \/ Subdirectories[p[1]] = "node_modules"

\* C27: encryptDirectory encrypts no dotfile and no file of a dot-directory or
\* of node_modules, and encrypts every other regular file of the tree whose
\* name does not end in .encrypted.
C27_EncryptDirectoryWalk ==
  [][(/\ result'.op = "encryptDirectory"
      /\ result'.status = "ok"
      /\ HasSession
      /\ masterFile # 0)
     => \A p \in DOMAIN fs :
          IF startsWithDot(p[2]) \/ InSkippedDirectory(p) \/ endsWith(p, ENC)
          THEN p \in DOMAIN fs' /\ fs'[p] = fs[p]
          ELSE Encrypted(p)]_vars

----------------------------------------------------------------------------
(* Properties of EncryptedFileRepository.findAll *)

\* an entity file of id is on disk: it was created and not deleted
StoredEntity(files, id) ==
  getEntityPath(id) \in DOMAIN files \/ getEntityPath(id) \o <<ENC>> \in DOMAIN files

\* C28: findAll returns each stored entity once: no two entries of its result
\* have the same id, and the result holds an entry for an id exactly when the
\* entity was created and not deleted.
C28_FindAllOncePerEntity ==
  (result.op = "findAll" /\ result.status = "ok")
    => /\ \A i, j \in 1..Len(result.ret) :
            result.ret[i].id = result.ret[j].id => i = j
       /\ \A id \in EntityIds :
            (\E i \in 1..Len(result.ret) : result.ret[i].id = id)
              <=> StoredEntity(result.before, id)

----------------------------------------------------------------------------
(* Properties of the two access checks together *)

\* C29: for every session and every file metadata, validateUserKeyAccess for
\* the session user returns what canDecryptFile returns; so the user who
\* encrypted the file (who created the entity) is let through by both.
C29_AccessChecksAgree ==
  result.op = "accessChecks"
    => /\ result.status = result.canDecryptFile
       /\ result.before.encryptedBy = session.id => result.status = "true"

----------------------------------------------------------------------------
(* Properties of the scheduled rotation of user session keys *)

\* when deriveUserSessionKey put the key in the cache: the time in its label
CachedAt(key) == key.path[Len(key.path)].t

\* C30: with a pass of checkAndPerformScheduledRotations returning at least
\* once per check period, a user-session key put in the cache at time t is
\* discarded no later than t + the rotation interval + one check period,
\* whatever other session keys are derived for the user meanwhile.
C30_SessionKeysExpire ==
  \A id \in DOMAIN keyHierarchy.userSessionKeys :
    now <= CachedAt(keyHierarchy.userSessionKeys[id]) + KEY_ROTATION_INTERVAL + CheckPeriod

====
